---- MODULE Spec2Model ----
(***************************************************************************)
(* Model of slack-vibecoder's per-thread concurrency core:                 *)
(*   - ThreadQueueManager (thread-queue.ts): admission slot + wait queue   *)
(*   - ResponseHandler (response-handler.ts): one status message per job   *)
(*   - app.ts: app_mention / stop_claude / process_now / cancel_queued     *)
(*     handlers and startProcessing / processNextInQueue                   *)
(*   - claude-handler.ts: handleClaudeQuery callback routing               *)
(*   - slack-message.ts: payload builders and splitTextForSlack            *)
(*                                                                         *)
(* The specifications share the variables:                                 *)
(*   SpecQueue   the queue manager driven call by call with arbitrary      *)
(*               arguments (its public methods are the actions);           *)
(*   Spec        the application: the async handlers of app.ts, cut at     *)
(*               their awaits, interleaved on one thread;                  *)
(*   SpecNoStop  Spec without the stop button; SpecMention, SpecPromote    *)
(*               and SpecStop are the runs of Spec with no button, with    *)
(*               process_now only and with stop_claude only;               *)
(*   SpecThreads the queue manager with two thread keys and the cleanup;   *)
(*   SpecSplit   one call of splitTextForSlack with a positive maxLength;  *)
(*   SpecSplitLoop  the same call run one loop iteration at a time, for    *)
(*               every maxLength, under weak fairness;                     *)
(*   SpecProgress  one call of buildProgressMessage, its body text;        *)
(*   SpecHandler one ResponseHandler with its chat calls, payloads,        *)
(*               refresh ticks and progress updates; SpecLive and          *)
(*               SpecRender are its runs without the stop button and       *)
(*               without progress and ticks.                               *)
(***************************************************************************)
EXTENDS Integers, Sequences, FiniteSets, TLC

\* ------------------------------------------------------------------------
\* Bounds
\* ------------------------------------------------------------------------
\* number of message ids generateMessageId() hands out in SpecQueue
MaxJobs == 3
\* number of distinct ResponseHandler objects passed in by SpecQueue callers
MaxHandlers == 2

\* thread keys (threadTs) in use
Threads == {"t1"}
\* number of app_mention events the application receives in Spec
MaxMentions == 3
\* number of times the stop button is pressed in Spec
MaxStops == 1
\* the thread the application's events belong to
K == "t1"
Jobs == 1..MaxMentions
Ids == 1..MaxJobs
Handlers == 1..MaxHandlers

\* SpecHandler: number of onProgress callbacks the agent makes for the job
MaxProgress == 1
\* SpecHandler: number of times the refresh interval fires
MaxTicks == 2
\* SpecHandler: largest number of follow-up chunks of a result
MaxChunks == 2
\* SpecHandler: number of stop_claude / process_now presses that reach the job
MaxAborts == 1

\* `null` for string | null and ResponseHandler | null
NullId == 0
NullHandler == 0

\* ------------------------------------------------------------------------
\* ThreadQueueManager: the Map<string, ThreadState> is a function whose
\* domain is the set of thread keys that have a state.  A QueuedMessage | null
\* result is a sequence of length 0 (null) or 1.
\* ------------------------------------------------------------------------
NewState ==
  [isProcessing |-> FALSE, currentHandler |-> NullHandler,
   currentMessageId |-> NullId, queue |-> <<>>]

getOrCreateState(ts, k) ==
  IF k \in DOMAIN ts THEN ts ELSE ts @@ (k :> NewState)

isProcessing(ts, k) ==
  IF k \in DOMAIN ts THEN ts[k].isProcessing ELSE FALSE

getCurrentHandler(ts, k) ==
  IF k \in DOMAIN ts THEN ts[k].currentHandler ELSE NullHandler

getCurrentMessageId(ts, k) ==
  IF k \in DOMAIN ts THEN ts[k].currentMessageId ELSE NullId

\* mutant: the busy check is dropped
tryStartProcessing_NoGuard(ts, k, handler, messageId) ==
  LET s == getOrCreateState(ts, k) IN
  [threads |-> [s EXCEPT ![k] = [@ EXCEPT !.isProcessing = TRUE,
                                          !.currentHandler = handler,
                                          !.currentMessageId = messageId]],
   ret |-> TRUE]

\* mutant: a refused call still overwrites the recorded job id
tryStartProcessing_Clobber(ts, k, handler, messageId) ==
  LET s == getOrCreateState(ts, k) IN
  IF s[k].isProcessing
    THEN [threads |-> [s EXCEPT ![k] = [@ EXCEPT !.currentMessageId = messageId]],
          ret |-> FALSE]
    ELSE [threads |-> [s EXCEPT ![k] = [@ EXCEPT !.isProcessing = TRUE,
                                                 !.currentHandler = handler,
                                                 !.currentMessageId = messageId]],
          ret |-> TRUE]

tryStartProcessing(ts, k, handler, messageId) ==
  LET s == getOrCreateState(ts, k) IN
  IF s[k].isProcessing
    THEN [threads |-> s, ret |-> FALSE]
    ELSE [threads |-> [s EXCEPT ![k] = [@ EXCEPT !.isProcessing = TRUE,
                                                 !.currentHandler = handler,
                                                 !.currentMessageId = messageId]],
          ret |-> TRUE]

\* the while (queue.length > 0) { shift(); if queued return } loop
RECURSIVE ShiftUntilQueued(_)
ShiftUntilQueued(q) ==
  IF q = <<>> THEN [queue |-> <<>>, ret |-> <<>>]
  ELSE IF Head(q).status = "queued"
    THEN [queue |-> Tail(q), ret |-> <<Head(q)>>]
    ELSE ShiftUntilQueued(Tail(q))

\* mutant: the head is returned whatever its status
finishProcessing_NoSkip(ts, k) ==
  IF k \notin DOMAIN ts THEN [threads |-> ts, ret |-> <<>>]
  ELSE LET q == ts[k].queue
           r == IF q = <<>> THEN [queue |-> <<>>, ret |-> <<>>]
                ELSE [queue |-> Tail(q), ret |-> <<Head(q)>>]
       IN [threads |-> [ts EXCEPT ![k] = [isProcessing |-> FALSE,
                                          currentHandler |-> NullHandler,
                                          currentMessageId |-> NullId,
                                          queue |-> r.queue]],
           ret |-> r.ret]

\* mutant: the busy state is cleared only when a successor is found
finishProcessing_KeepBusy(ts, k) ==
  IF k \notin DOMAIN ts THEN [threads |-> ts, ret |-> <<>>]
  ELSE LET r == ShiftUntilQueued(ts[k].queue) IN
       IF r.ret = <<>>
         THEN [threads |-> [ts EXCEPT ![k] = [@ EXCEPT !.queue = r.queue]],
               ret |-> r.ret]
         ELSE [threads |-> [ts EXCEPT ![k] = [isProcessing |-> FALSE,
                                              currentHandler |-> NullHandler,
                                              currentMessageId |-> NullId,
                                              queue |-> r.queue]],
               ret |-> r.ret]

\* mutant: the release is applied to every thread of the Map
finishProcessing_AllKeys(ts, k) ==
  IF k \notin DOMAIN ts THEN [threads |-> ts, ret |-> <<>>]
  ELSE LET r == ShiftUntilQueued(ts[k].queue) IN
       [threads |-> [x \in DOMAIN ts |->
                       IF x = k
                         THEN [isProcessing |-> FALSE,
                               currentHandler |-> NullHandler,
                               currentMessageId |-> NullId,
                               queue |-> r.queue]
                         ELSE [ts[x] EXCEPT !.isProcessing = FALSE,
                                            !.currentHandler = NullHandler,
                                            !.currentMessageId = NullId]],
        ret |-> r.ret]

\* mutant: the release clears the flag and leaves the handler and the job
\* id in place
finishProcessing_FlagOnly(ts, k) ==
  IF k \notin DOMAIN ts THEN [threads |-> ts, ret |-> <<>>]
  ELSE LET r == ShiftUntilQueued(ts[k].queue) IN
       [threads |-> [ts EXCEPT ![k] = [isProcessing |-> FALSE,
                                       currentHandler |-> ts[k].currentHandler,
                                       currentMessageId |-> ts[k].currentMessageId,
                                       queue |-> r.queue]],
        ret |-> r.ret]

finishProcessing(ts, k) ==
  IF k \notin DOMAIN ts THEN [threads |-> ts, ret |-> <<>>]
  ELSE LET r == ShiftUntilQueued(ts[k].queue) IN
       [threads |-> [ts EXCEPT ![k] = [isProcessing |-> FALSE,
                                       currentHandler |-> NullHandler,
                                       currentMessageId |-> NullId,
                                       queue |-> r.queue]],
        ret |-> r.ret]

enqueue(ts, k, message) ==
  LET s == getOrCreateState(ts, k)
      q == Append(s[k].queue, message)
  IN [threads |-> [s EXCEPT ![k] = [@ EXCEPT !.queue = q]],
      ret |-> Len(q)]

\* Array.prototype.findIndex, 0 for -1
FindIndexById(q, messageId) ==
  LET hits == {i \in 1..Len(q) : q[i].id = messageId} IN
  IF hits = {} THEN 0 ELSE CHOOSE i \in hits : \A j \in hits : i <= j

FindIndexQueuedById(q, messageId) ==
  LET hits == {i \in 1..Len(q) : q[i].id = messageId /\ q[i].status = "queued"} IN
  IF hits = {} THEN 0 ELSE CHOOSE i \in hits : \A j \in hits : i <= j

\* mutant: the status test is dropped, a cancelled entry is cancelled again
cancelQueued_NoStatusCheck(ts, k, messageId) ==
  IF k \notin DOMAIN ts THEN [threads |-> ts, ret |-> FALSE]
  ELSE LET i == FindIndexById(ts[k].queue, messageId) IN
       IF i # 0
         THEN [threads |-> [ts EXCEPT ![k].queue[i].status = "cancelled"],
               ret |-> TRUE]
         ELSE [threads |-> ts, ret |-> FALSE]

\* mutant: the entry is removed eagerly instead of being marked
cancelQueued_Eager(ts, k, messageId) ==
  IF k \notin DOMAIN ts THEN [threads |-> ts, ret |-> FALSE]
  ELSE LET q == ts[k].queue
           i == FindIndexById(q, messageId) IN
       IF i # 0 /\ q[i].status = "queued"
         THEN [threads |-> [ts EXCEPT ![k].queue =
                              SubSeq(q, 1, i - 1) \o SubSeq(q, i + 1, Len(q))],
               ret |-> TRUE]
         ELSE [threads |-> ts, ret |-> FALSE]

cancelQueued(ts, k, messageId) ==
  IF k \notin DOMAIN ts THEN [threads |-> ts, ret |-> FALSE]
  ELSE LET i == FindIndexById(ts[k].queue, messageId) IN
       IF i # 0 /\ ts[k].queue[i].status = "queued"
         THEN [threads |-> [ts EXCEPT ![k].queue[i].status = "cancelled"],
               ret |-> TRUE]
         ELSE [threads |-> ts, ret |-> FALSE]

\* mutant: the entry is returned but left in the queue
prioritize_NoRemove(ts, k, messageId) ==
  IF k \notin DOMAIN ts THEN [threads |-> ts, ret |-> <<>>]
  ELSE LET q == ts[k].queue
           i == FindIndexQueuedById(q, messageId) IN
       IF i = 0 THEN [threads |-> ts, ret |-> <<>>]
       ELSE [threads |-> ts, ret |-> <<q[i]>>]

\* mutant: the lookup ignores the status
prioritize_AnyStatus(ts, k, messageId) ==
  IF k \notin DOMAIN ts THEN [threads |-> ts, ret |-> <<>>]
  ELSE LET q == ts[k].queue
           i == FindIndexById(q, messageId) IN
       IF i = 0 THEN [threads |-> ts, ret |-> <<>>]
       ELSE [threads |-> [ts EXCEPT ![k].queue =
                            SubSeq(q, 1, i - 1) \o SubSeq(q, i + 1, Len(q))],
             ret |-> <<q[i]>>]

prioritize(ts, k, messageId) ==
  IF k \notin DOMAIN ts THEN [threads |-> ts, ret |-> <<>>]
  ELSE LET q == ts[k].queue
           i == FindIndexQueuedById(q, messageId) IN
       IF i = 0 THEN [threads |-> ts, ret |-> <<>>]
       ELSE [threads |-> [ts EXCEPT ![k].queue =
                            SubSeq(q, 1, i - 1) \o SubSeq(q, i + 1, Len(q))],
             ret |-> <<q[i]>>]

getQueuedMessage(ts, k, messageId) ==
  IF k \notin DOMAIN ts THEN <<>>
  ELSE LET i == FindIndexById(ts[k].queue, messageId) IN
       IF i = 0 THEN <<>> ELSE <<ts[k].queue[i]>>

getQueueLength(ts, k) ==
  IF k \notin DOMAIN ts THEN 0
  ELSE Cardinality({i \in 1..Len(ts[k].queue) : ts[k].queue[i].status = "queued"})


\* ------------------------------------------------------------------------
\* Message payloads (slack-message.ts).  A text is a sequence of tokens; a run
\* of digits is one token.  The tokens "min", "sec", "elapsed" and "taken"
\* stand for the Korean words the builders print for minutes, seconds,
\* "elapsed" (progress) and "taken" (result).  A payload is
\* {blocks, fallbackText}; every block is written {type, text}.
\* ------------------------------------------------------------------------
\* elapsed seconds a refresh tick can compute from Date.now() - startTime
TickSeconds == {61}
\* elapsed seconds the agent passes to onProgress
ProgressSeconds == {75}
\* texts the agent reports; this one looks like a metadata line
ProgressTexts == {<<"_", "9", "sec", " ", "elapsed">>}

formatDuration(seconds) ==
  LET minutes == seconds \div 60
      secs == seconds % 60
  IN IF minutes > 0
       THEN <<ToString(minutes), "min", " ", ToString(secs), "sec">>
       ELSE <<ToString(secs), "sec">>

buildMetadataBlock(timeStr, toolCallCount, status) ==
  [type |-> "context",
   text |-> <<"_">> \o timeStr \o <<" ", status, ",tools", ToString(toolCallCount), "_">>]

buildTextBlock(text) == [type |-> "section", text |-> text]

buildStopButtonBlock == [type |-> "actions", text |-> <<"stop_claude">>]

buildThinkingMessage ==
  [blocks |-> <<[type |-> "context",
                 text |-> <<"_", "0", "sec", " ", "elapsed", ",tools", "0", "_">>],
                buildTextBlock(<<"thinking">>),
                buildStopButtonBlock>>,
   fallbackText |-> "thinking"]

buildProgressMessage(text, elapsedSeconds, toolCallCount) ==
  [blocks |-> <<buildMetadataBlock(formatDuration(elapsedSeconds), toolCallCount, "elapsed"),
                buildTextBlock(<<"working", ">">> \o text),
                buildStopButtonBlock>>,
   fallbackText |-> "working"]

\* the result text is given by the number of chunks splitTextForSlack cuts it
\* into; chunk i reads <<"chunk", i>>
buildResultMessage(chunkCount, durationSeconds, toolCallCount) ==
  [firstMessage |->
     [blocks |-> <<buildMetadataBlock(formatDuration(durationSeconds), toolCallCount, "taken"),
                   buildTextBlock(<<"chunk", "1">>)>>,
      fallbackText |-> "result"],
   additionalChunks |-> [i \in 1..(chunkCount - 1) |-> <<"chunk", ToString(i + 1)>>]]

buildErrorMessage ==
  [blocks |-> <<buildTextBlock(<<"error">>)>>, fallbackText |-> "error"]

\* the text-only payload of showError's second attempt
MinimalErrorMessage == [blocks |-> <<>>, fallbackText |-> "error-minimal"]

buildAbortedMessage ==
  [blocks |-> <<buildTextBlock(<<"aborted">>)>>, fallbackText |-> "aborted"]

\* the payload of one follow-up chunk
ChunkMessage(chunk) == [blocks |-> <<buildTextBlock(chunk)>>, fallbackText |-> "chunk"]

\* the queued notice a promoted job's message shows before it is reused
QueuedNotice == [blocks |-> <<buildTextBlock(<<"queued">>)>>, fallbackText |-> "queued"]

\* no message posted yet
NoMessage == [blocks |-> <<>>, fallbackText |-> "none"]

IsDigits(tok) == tok \in {ToString(n) : n \in 0..99}

RECURSIVE SkipSpaces(_, _)
SkipSpaces(t, p) ==
  IF p <= Len(t) /\ t[p] = " " THEN SkipSpaces(t, p + 1) ELSE p

\* text.replace(/^_\d+min?\s*\d*sec?\s*(elapsed|taken)/, `_${timeStr} $1`):
\* the position just after the match, or 0 when the text does not match
TimePatternEnd(t) ==
  IF Len(t) >= 2 /\ t[1] = "_" /\ IsDigits(t[2])
    THEN LET p1 == IF Len(t) >= 3 /\ t[3] = "min" THEN 4 ELSE 3
             p2 == SkipSpaces(t, p1)
             p3 == IF p2 <= Len(t) /\ IsDigits(t[p2]) THEN p2 + 1 ELSE p2
             p4 == IF p3 <= Len(t) /\ t[p3] = "sec" THEN p3 + 1 ELSE p3
             p5 == SkipSpaces(t, p4)
         IN IF p5 <= Len(t) /\ t[p5] \in {"elapsed", "taken"} THEN p5 + 1 ELSE 0
    ELSE 0

\* updateMetadataOnly's loop body for one block (part_001:690-702)
ReplaceTime(block, timeStr) ==
  LET e == TimePatternEnd(block.text) IN
  IF block.type = "context" /\ e # 0
    THEN [block EXCEPT !.text = <<"_">> \o timeStr \o <<" ", block.text[e - 1]>>
                                  \o SubSeq(block.text, e, Len(block.text))]
    ELSE block

\* ------------------------------------------------------------------------
\* State
\* ------------------------------------------------------------------------
VARIABLES
  threads,      \* ThreadQueueManager.threads
  last,         \* SpecQueue: the last call made on the manager and its result
  nextId,       \* number of message ids handed out so far
  clock,        \* Date.now() as a strictly rising stamp taken at each enqueue
  admits,       \* per key: tryStartProcessing calls that returned true since
                \* the last finishProcessing on that key (capped at 2)
  cancelledOk,  \* ids for which cancelQueued has returned true
  returned,     \* ids that finishProcessing or prioritize has returned
  \* --- application (Spec) ---
  pc,           \* per job: where its mention handler / startProcessing call is
  hnd,          \* per job: the fields of its ResponseHandler
  aborted,      \* per job: abortSignal.aborted as seen by its handleClaudeQuery
  sessionExists,\* the session manager holds a session for the thread
  written,      \* per job: terminal payloads chat.update has put on its message
  admitted,     \* per job: tryStartProcessing returned true for it
  rendered,     \* per job: showResult / showError / showAborted was invoked
  stopWait,     \* per job: stop_claude handlers awaiting showAborted on its handler
  pnTarget,     \* per job: the handler a process_now for the job is aborting
  stops,        \* number of stop_claude presses so far
  chatFailed,   \* some chat.postMessage / chat.update call has failed
  queuePosition,\* per job: the position its queued notice shows (0: no notice)
  starts,       \* per job: how often tryStartProcessing returned true for it
  \* --- one ResponseHandler (SpecHandler) ---
  rh,           \* the fields of the ResponseHandler object
  chat,         \* the chat client: calls issued, the status message, follow-ups
  run,          \* the job that owns the handler: position, slot, agent signal
  \* --- splitTextForSlack (SpecSplit) ---
  split         \* one call of splitTextForSlack: its arguments and its result

queueVars == <<threads, last, nextId, clock, admits, cancelledOk, returned>>

appVars == <<pc, hnd, aborted, sessionExists, written, admitted, rendered,
             stopWait, pnTarget, stops, chatFailed, queuePosition, starts>>

vars == <<threads, last, nextId, clock, admits, cancelledOk, returned,
          pc, hnd, aborted, sessionExists, written, admitted, rendered,
          stopWait, pnTarget, stops, chatFailed, queuePosition, starts,
          rh, chat, run, split>>

handlerVars == <<rh, chat, run>>

NoCall ==
  [op |-> "none", key |-> "t1", handler |-> NullHandler, id |-> NullId,
   retBool |-> FALSE, retMsg |-> <<>>, retNum |-> 0]

Call(op, k, handler, id, retBool, retMsg, retNum) ==
  [op |-> op, key |-> k, handler |-> handler, id |-> id,
   retBool |-> retBool, retMsg |-> retMsg, retNum |-> retNum]

\* state after `new ThreadQueueManager()`
NewHandler ==
  [responseTs |-> FALSE, isCompleted |-> FALSE, timerOn |-> FALSE]

\* state after `new ThreadQueueManager()`, no event received yet
InitManager ==
  /\ threads = <<>>
  /\ last = NoCall
  /\ nextId = 0
  /\ clock = 0
  /\ admits = [k \in Threads |-> 0]
  /\ cancelledOk = {}
  /\ returned = {}

InitApp ==
  /\ pc = [j \in Jobs |-> "new"]
  /\ hnd = [j \in Jobs |-> NewHandler]
  /\ aborted = [j \in Jobs |-> FALSE]
  /\ sessionExists = FALSE
  /\ written = [j \in Jobs |-> {}]
  /\ admitted = [j \in Jobs |-> FALSE]
  /\ rendered = [j \in Jobs |-> FALSE]
  /\ stopWait = [j \in Jobs |-> 0]
  /\ pnTarget = [j \in Jobs |-> NullHandler]
  /\ stops = 0
  /\ chatFailed = FALSE
  /\ queuePosition = [j \in Jobs |-> 0]
  /\ starts = [j \in Jobs |-> 0]

\* fields of a ResponseHandler after its constructor (part_001:370-386);
\* timerOn stands for timerId # null
NewResponseHandler ==
  [responseTs |-> FALSE, timerOn |-> FALSE, lastBlocks |-> <<>>,
   lastFallbackText |-> "", isCompleted |-> FALSE]

\* startProcessing has created the handler and tryStartProcessing has
\* admitted the job (app.ts:376-382); `reuse` tells whether the job was
\* promoted from the queue, so that its queued notice is the status message
InitHandler ==
  /\ rh = NewResponseHandler
  /\ \E reuse \in BOOLEAN :
       /\ chat = [calls |-> <<>>,
                  message |-> IF reuse THEN QueuedNotice ELSE NoMessage,
                  posts |-> <<>>]
       /\ run = [pc |-> "admitted", reuse |-> reuse, current |-> TRUE,
                 aborted |-> FALSE, first |-> NoMessage, chunks |-> <<>>, i |-> 0,
                 resend |-> "none", logged |-> 0, last |-> "new",
                 nProgress |-> 0, nTicks |-> 0, nAborts |-> 0]

\* the handler world while SpecQueue / Spec run: untouched
IdleHandler ==
  /\ rh = NewResponseHandler
  /\ chat = [calls |-> <<>>, message |-> NoMessage, posts |-> <<>>]
  /\ run = [pc |-> "admitted", reuse |-> FALSE, current |-> TRUE,
            aborted |-> FALSE, first |-> NoMessage, chunks |-> <<>>, i |-> 0,
            resend |-> "none", logged |-> 0, last |-> "new",
            nProgress |-> 0, nTicks |-> 0, nAborts |-> 0]

\* no call of splitTextForSlack is under way
IdleSplit ==
  split = [pc |-> "idle", text |-> <<>>, maxLength |-> 0, chunks |-> <<>>]

InitQueue == InitManager /\ InitApp /\ IdleHandler /\ IdleSplit

IdsOf(msgs) == {msgs[i].id : i \in 1..Len(msgs)}

QueueOf(ts, k) == IF k \in DOMAIN ts THEN ts[k].queue ELSE <<>>

\* ------------------------------------------------------------------------
\* SpecQueue: one action per public method of the manager
\* ------------------------------------------------------------------------
\* the caller passes the id of a job that is not waiting in the queue: a
\* fresh id from generateMessageId() (app.ts:358) or the id of a message it
\* was handed by finishProcessing / prioritize (app.ts:452, 538)
QTryStartProcessing(k, handler, messageId) ==
  /\ messageId <= nextId + 1
  /\ messageId \notin IdsOf(QueueOf(threads, k))
  /\ LET r == tryStartProcessing(threads, k, handler, messageId) IN
     /\ threads' = r.threads
     /\ last' = Call("tryStartProcessing", k, handler, messageId, r.ret, <<>>, 0)
     /\ admits' = [admits EXCEPT ![k] = IF r.ret /\ @ < 2 THEN @ + 1 ELSE @]
  /\ nextId' = IF messageId > nextId THEN messageId ELSE nextId
  /\ UNCHANGED <<clock, cancelledOk, returned>>
  /\ UNCHANGED appVars
  /\ UNCHANGED <<handlerVars, split>>

QFinishProcessing(k) ==
  LET r == finishProcessing(threads, k) IN
  /\ threads' = r.threads
  /\ last' = Call("finishProcessing", k, NullHandler, NullId, FALSE, r.ret, 0)
  /\ admits' = [admits EXCEPT ![k] = 0]
  /\ returned' = returned \cup IdsOf(r.ret)
  /\ UNCHANGED <<nextId, clock, cancelledOk>>
  /\ UNCHANGED appVars
  /\ UNCHANGED <<handlerVars, split>>

\* the caller builds the message as app.ts:340-348 does: a fresh id from
\* generateMessageId(), status "queued", queuedAt = the (strictly rising) clock
QEnqueue(k) ==
  /\ nextId < MaxJobs
  /\ LET m == [id |-> nextId + 1, status |-> "queued", queuedAt |-> clock + 1]
         r == enqueue(threads, k, m) IN
     /\ threads' = r.threads
     /\ last' = Call("enqueue", k, NullHandler, m.id, FALSE, <<m>>, r.ret)
  /\ nextId' = nextId + 1
  /\ clock' = clock + 1
  /\ UNCHANGED <<admits, cancelledOk, returned>>
  /\ UNCHANGED appVars
  /\ UNCHANGED <<handlerVars, split>>

QCancelQueued(k, messageId) ==
  LET r == cancelQueued(threads, k, messageId) IN
  /\ threads' = r.threads
  /\ last' = Call("cancelQueued", k, NullHandler, messageId, r.ret, <<>>, 0)
  /\ cancelledOk' = IF r.ret THEN cancelledOk \cup {messageId} ELSE cancelledOk
  /\ UNCHANGED <<nextId, clock, admits, returned>>
  /\ UNCHANGED appVars
  /\ UNCHANGED <<handlerVars, split>>

QPrioritize(k, messageId) ==
  LET r == prioritize(threads, k, messageId) IN
  /\ threads' = r.threads
  /\ last' = Call("prioritize", k, NullHandler, messageId, FALSE, r.ret, 0)
  /\ returned' = returned \cup IdsOf(r.ret)
  /\ UNCHANGED <<nextId, clock, admits, cancelledOk>>
  /\ UNCHANGED appVars
  /\ UNCHANGED <<handlerVars, split>>

NextQueue ==
  \/ \E k \in Threads, h \in Handlers, id \in Ids : QTryStartProcessing(k, h, id)
  \/ \E k \in Threads : QFinishProcessing(k)
  \/ \E k \in Threads : QEnqueue(k)
  \/ \E k \in Threads, id \in Ids : QCancelQueued(k, id)
  \/ \E k \in Threads, id \in Ids : QPrioritize(k, id)

SpecQueue == InitQueue /\ [][NextQueue]_vars

\* ------------------------------------------------------------------------
\* Spec: the application.  Every async function is cut at the awaits that
\* wait for the chat client or the agent; the code between two such awaits
\* runs as one action (single-threaded event loop).  A job's id is also the
\* identity of the ResponseHandler that startProcessing creates for it.
\* ------------------------------------------------------------------------
\* the part of the state that startProcessing / processNextInQueue change
Sync ==
  [threads |-> threads, pc |-> pc, hnd |-> hnd, admitted |-> admitted,
   starts |-> starts]

Commit(st) ==
  /\ threads' = st.threads
  /\ pc' = st.pc
  /\ hnd' = st.hnd
  /\ admitted' = st.admitted
  /\ starts' = st.starts

\* pc values at which the job's handleClaudeQuery call is on the stack
InQuery(p) ==
  p \in {"streaming", "showResult", "showResultChunk", "showResultErr",
         "showError", "showErrorRetry"}

\* mutant: the interval is left running
stopTimer_Keep(h) == h

\* ResponseHandler.stopTimer
stopTimer(h) == [h EXCEPT !.timerOn = FALSE]

\* startProcessing up to its first await: the handler is created, admission
\* is tried, and start() / startWithExistingMessage() is entered
\* (startWithExistingMessage stores the handle before its await)
startProcessing(st, j, existingResponseTs) ==
  LET r == tryStartProcessing(st.threads, K, j, j) IN
  IF ~r.ret
    THEN [st EXCEPT !.threads = r.threads, !.pc[j] = "refused"]
    ELSE [st EXCEPT !.threads = r.threads,
                    !.pc[j] = "starting",
                    !.admitted[j] = TRUE,
                    !.starts[j] = @ + 1,
                    !.hnd[j] = [NewHandler EXCEPT !.responseTs = existingResponseTs]]

processNextInQueue(st) ==
  LET r == finishProcessing(st.threads, K)
      s1 == [st EXCEPT !.threads = r.threads]
  IN IF r.ret = <<>> THEN s1 ELSE startProcessing(s1, r.ret[1].id, TRUE)

\* threadQueueManager.finishProcessing(threadTs) with the result dropped
\* (app.ts:396 and app.ts:528); a job returned there is started by nobody
finishAndDrop(st) ==
  LET r == finishProcessing(st.threads, K)
      s1 == [st EXCEPT !.threads = r.threads]
  IN IF r.ret = <<>> THEN s1 ELSE [s1 EXCEPT !.pc[r.ret[1].id] = "lost"]

\* sessionManager.abortSession: true iff the thread has a session; aborts the
\* controller whose signal the running handleClaudeQuery calls hold
abortSession(exists, ab, pcs) ==
  [ret |-> exists,
   aborted |-> [j \in Jobs |-> ab[j] \/ (exists /\ InQuery(pcs[j]))]]

\* app_mention with a non-empty query (an empty one only posts a hint)
AppMention ==
  /\ nextId < MaxMentions
  /\ pc[nextId + 1] = "new"
  /\ nextId' = nextId + 1
  /\ IF isProcessing(threads, K)
       THEN /\ pc' = [pc EXCEPT ![nextId + 1] = "posting"]
            /\ queuePosition' = [queuePosition EXCEPT ![nextId + 1] =
                                   getQueueLength(threads, K) + 1]
            /\ UNCHANGED <<threads, hnd, admitted, starts>>
       ELSE /\ Commit(startProcessing(Sync, nextId + 1, FALSE))
            /\ UNCHANGED queuePosition
  /\ UNCHANGED <<last, clock, admits, cancelledOk, returned, aborted,
                 sessionExists, written, rendered, stopWait, pnTarget, stops,
                 chatFailed>>
  /\ UNCHANGED <<handlerVars, split>>

\* the chat.postMessage of the queued notice returns (app.ts:331-354)
PostQueuedDone(j, ok) ==
  /\ pc[j] = "posting"
  /\ IF ok
       THEN /\ threads' = enqueue(threads, K,
                            [id |-> j, status |-> "queued", queuedAt |-> clock + 1]).threads
            /\ clock' = clock + 1
            /\ pc' = [pc EXCEPT ![j] = "queued"]
            /\ UNCHANGED chatFailed
       ELSE /\ pc' = [pc EXCEPT ![j] = "dropped"]
            /\ chatFailed' = TRUE
            /\ UNCHANGED <<threads, clock>>
  /\ UNCHANGED <<last, nextId, admits, cancelledOk, returned, hnd, aborted,
                 sessionExists, written, admitted, starts, rendered, stopWait, pnTarget,
                 stops>>
  /\ UNCHANGED queuePosition
  /\ UNCHANGED <<handlerVars, split>>

\* handler.start() / startWithExistingMessage() returns (app.ts:385-403):
\* "ok" a handle, "null" no handle, "throw" start()'s postMessage rejected
StartDone(j, outcome) ==
  /\ pc[j] = "starting"
  /\ outcome = "throw" => ~hnd[j].responseTs
  /\ CASE outcome = "ok" ->
            /\ hnd' = [hnd EXCEPT ![j] = [@ EXCEPT !.responseTs = TRUE, !.timerOn = TRUE]]
            /\ pc' = [pc EXCEPT ![j] = "streaming"]
            /\ sessionExists' = TRUE
            /\ aborted' = [aborted EXCEPT ![j] = FALSE]
            /\ UNCHANGED <<threads, admitted, starts, chatFailed>>
       [] outcome = "null" ->
            /\ Commit(finishAndDrop([Sync EXCEPT !.pc[j] = "noHandle"]))
            /\ chatFailed' = TRUE
            /\ UNCHANGED <<sessionExists, aborted>>
       [] outcome = "throw" ->
            /\ pc' = [pc EXCEPT ![j] = "startThrew"]
            /\ chatFailed' = TRUE
            /\ UNCHANGED <<threads, hnd, admitted, starts, sessionExists, aborted>>
  /\ UNCHANGED <<last, nextId, clock, admits, cancelledOk, returned, written,
                 rendered, stopWait, pnTarget, stops>>
  /\ UNCHANGED queuePosition
  /\ UNCHANGED <<handlerVars, split>>

\* the agent's stream ends normally (handleClaudeQuery after the stream):
\* onResult -> showResult up to its first chat.update, unless aborted
AgentEnd(j) ==
  /\ pc[j] = "streaming"
  /\ IF aborted[j]
       THEN /\ pc' = [pc EXCEPT ![j] = "done"]
            /\ UNCHANGED <<hnd, rendered>>
       ELSE /\ pc' = [pc EXCEPT ![j] = "showResult"]
            /\ hnd' = [hnd EXCEPT ![j] = stopTimer([@ EXCEPT !.isCompleted = TRUE])]
            /\ rendered' = [rendered EXCEPT ![j] = TRUE]
  /\ UNCHANGED <<threads, last, nextId, clock, admits, cancelledOk, returned,
                 aborted, sessionExists, written, admitted, starts, stopWait, pnTarget,
                 stops, chatFailed>>
  /\ UNCHANGED queuePosition
  /\ UNCHANGED <<handlerVars, split>>

\* the agent's stream throws (handleClaudeQuery catch):
\* onError -> showError up to its first chat.update, unless aborted
AgentThrow(j) ==
  /\ pc[j] = "streaming"
  /\ IF aborted[j]
       THEN /\ pc' = [pc EXCEPT ![j] = "done"]
            /\ UNCHANGED <<hnd, rendered>>
       ELSE /\ pc' = [pc EXCEPT ![j] = "showError"]
            /\ hnd' = [hnd EXCEPT ![j] = stopTimer([@ EXCEPT !.isCompleted = TRUE])]
            /\ rendered' = [rendered EXCEPT ![j] = TRUE]
  /\ UNCHANGED <<threads, last, nextId, clock, admits, cancelledOk, returned,
                 aborted, sessionExists, written, admitted, starts, stopWait, pnTarget,
                 stops, chatFailed>>
  /\ UNCHANGED queuePosition
  /\ UNCHANGED <<handlerVars, split>>

\* showResult has returned: onResult goes on to processNextInQueue and
\* handleClaudeQuery / startProcessing return (app.ts:415-418)
AfterShowResult(j) == processNextInQueue([Sync EXCEPT !.pc[j] = "done"])

\* showError has returned: onError goes on to processNextInQueue, then
\* handleClaudeQuery rethrows and startProcessing's catch stops the timer
\* and calls processNextInQueue again (app.ts:420-431)
AfterShowError(j) ==
  LET s1 == processNextInQueue([Sync EXCEPT !.pc[j] = "done"])
      s2 == [s1 EXCEPT !.hnd[j] = stopTimer(@)]
  IN processNextInQueue(s2)

\* showResult: the update of the primary message with the first chunk returns
ShowResultFirstDone(j, ok, more) ==
  /\ pc[j] = "showResult"
  /\ IF ok
       THEN /\ written' = [written EXCEPT ![j] = @ \cup {"result"}]
            /\ IF more
                 THEN /\ pc' = [pc EXCEPT ![j] = "showResultChunk"]
                      /\ UNCHANGED <<threads, hnd, admitted, starts>>
                 ELSE Commit(AfterShowResult(j))
            /\ UNCHANGED chatFailed
       ELSE /\ ~more
            /\ pc' = [pc EXCEPT ![j] = "showResultErr"]
            /\ chatFailed' = TRUE
            /\ UNCHANGED <<threads, hnd, admitted, starts, written>>
  /\ UNCHANGED <<last, nextId, clock, admits, cancelledOk, returned, aborted,
                 sessionExists, rendered, stopWait, pnTarget, stops>>
  /\ UNCHANGED queuePosition
  /\ UNCHANGED <<handlerVars, split>>

\* showResult: the postMessage of a follow-up chunk returns
ShowResultChunkDone(j, ok) ==
  /\ pc[j] = "showResultChunk"
  /\ IF ok
       THEN /\ Commit(AfterShowResult(j))
            /\ UNCHANGED chatFailed
       ELSE /\ pc' = [pc EXCEPT ![j] = "showResultErr"]
            /\ chatFailed' = TRUE
            /\ UNCHANGED <<threads, hnd, admitted, starts>>
  /\ UNCHANGED <<last, nextId, clock, admits, cancelledOk, returned, aborted,
                 sessionExists, written, rendered, stopWait, pnTarget, stops>>
  /\ UNCHANGED queuePosition
  /\ UNCHANGED <<handlerVars, split>>

\* showResult: the error-payload update of its local showError helper returns
ShowResultErrDone(j, ok) ==
  /\ pc[j] = "showResultErr"
  /\ written' = [written EXCEPT ![j] = IF ok THEN @ \cup {"error"} ELSE @]
  /\ chatFailed' = (chatFailed \/ ~ok)
  /\ Commit(AfterShowResult(j))
  /\ UNCHANGED <<last, nextId, clock, admits, cancelledOk, returned, aborted,
                 sessionExists, rendered, stopWait, pnTarget, stops>>
  /\ UNCHANGED queuePosition
  /\ UNCHANGED <<handlerVars, split>>

\* showError: the error-payload update returns
ShowErrorDone(j, ok) ==
  /\ pc[j] = "showError"
  /\ IF ok
       THEN /\ written' = [written EXCEPT ![j] = @ \cup {"error"}]
            /\ Commit(AfterShowError(j))
            /\ UNCHANGED chatFailed
       ELSE /\ pc' = [pc EXCEPT ![j] = "showErrorRetry"]
            /\ chatFailed' = TRUE
            /\ UNCHANGED <<threads, hnd, admitted, starts, written>>
  /\ UNCHANGED <<last, nextId, clock, admits, cancelledOk, returned, aborted,
                 sessionExists, rendered, stopWait, pnTarget, stops>>
  /\ UNCHANGED queuePosition
  /\ UNCHANGED <<handlerVars, split>>

\* showError: the minimal text-only update returns
ShowErrorRetryDone(j, ok) ==
  /\ pc[j] = "showErrorRetry"
  /\ written' = [written EXCEPT ![j] = IF ok THEN @ \cup {"error"} ELSE @]
  /\ Commit(AfterShowError(j))
  /\ UNCHANGED <<last, nextId, clock, admits, cancelledOk, returned, aborted,
                 sessionExists, rendered, stopWait, pnTarget, stops, chatFailed>>
  /\ UNCHANGED queuePosition
  /\ UNCHANGED <<handlerVars, split>>

\* stop_claude after its ack, up to the chat.update inside showAborted
StopClaude ==
  /\ stops < MaxStops
  /\ sessionExists
  /\ stops' = stops + 1
  /\ LET h == getCurrentHandler(threads, K)
         a == abortSession(sessionExists, aborted, pc)
     IN /\ aborted' = a.aborted
        /\ IF a.ret /\ h # NullHandler
             THEN /\ rendered' = [rendered EXCEPT ![h] = TRUE]
                  /\ IF hnd[h].responseTs
                       THEN /\ hnd' = [hnd EXCEPT ![h] = stopTimer(@)]
                            /\ stopWait' = [stopWait EXCEPT ![h] = @ + 1]
                            /\ UNCHANGED <<threads, pc, admitted, starts>>
                       ELSE /\ Commit(processNextInQueue(
                                        [Sync EXCEPT !.hnd[h] = stopTimer(@)]))
                            /\ UNCHANGED stopWait
             ELSE UNCHANGED <<threads, pc, hnd, admitted, starts, rendered, stopWait>>
  /\ UNCHANGED <<last, nextId, clock, admits, cancelledOk, returned,
                 sessionExists, written, pnTarget, chatFailed>>
  /\ UNCHANGED queuePosition
  /\ UNCHANGED <<handlerVars, split>>

\* stop_claude: showAborted's chat.update returns; on success the handler
\* goes on to processNextInQueue, on failure showAborted throws
StopShowAbortedDone(h, ok) ==
  /\ stopWait[h] > 0
  /\ stopWait' = [stopWait EXCEPT ![h] = @ - 1]
  /\ IF ok
       THEN /\ written' = [written EXCEPT ![h] = @ \cup {"aborted"}]
            /\ Commit(processNextInQueue(Sync))
            /\ UNCHANGED chatFailed
       ELSE /\ chatFailed' = TRUE
            /\ UNCHANGED <<threads, pc, hnd, admitted, starts, written>>
  /\ UNCHANGED <<last, nextId, clock, admits, cancelledOk, returned, aborted,
                 sessionExists, rendered, pnTarget, stops>>
  /\ UNCHANGED queuePosition
  /\ UNCHANGED <<handlerVars, split>>

\* process_now after its ack, up to the chat.update inside showAborted (or,
\* when nothing is running, up to the first await of startProcessing)
ProcessNow(j) ==
  /\ pc[j] = "queued"
  /\ LET r == prioritize(threads, K, j)
         c == getCurrentHandler(r.threads, K)
         s0 == [Sync EXCEPT !.threads = r.threads]
     IN /\ r.ret # <<>>
        /\ IF c # NullHandler
             THEN /\ aborted' = abortSession(sessionExists, aborted, pc).aborted
                  /\ rendered' = [rendered EXCEPT ![c] = TRUE]
                  /\ IF hnd[c].responseTs
                       THEN /\ Commit([s0 EXCEPT !.hnd[c] = stopTimer(@),
                                                 !.pc[j] = "pnAborting"])
                            /\ pnTarget' = [pnTarget EXCEPT ![j] = c]
                       ELSE /\ Commit(startProcessing(
                                        finishAndDrop([s0 EXCEPT !.hnd[c] = stopTimer(@)]),
                                        j, TRUE))
                            /\ UNCHANGED pnTarget
             ELSE /\ Commit(startProcessing(s0, j, TRUE))
                  /\ UNCHANGED <<aborted, rendered, pnTarget>>
  /\ UNCHANGED <<last, nextId, clock, admits, cancelledOk, returned,
                 sessionExists, written, stopWait, stops, chatFailed>>
  /\ UNCHANGED queuePosition
  /\ UNCHANGED <<handlerVars, split>>

\* process_now: showAborted's chat.update returns; on success the handler
\* releases the slot and starts the job, on failure showAborted throws
ProcessNowAbortedDone(j, ok) ==
  /\ pc[j] = "pnAborting"
  /\ pnTarget' = [pnTarget EXCEPT ![j] = NullHandler]
  /\ IF ok
       THEN /\ written' = [written EXCEPT ![pnTarget[j]] = @ \cup {"aborted"}]
            /\ Commit(startProcessing(finishAndDrop(Sync), j, TRUE))
            /\ UNCHANGED chatFailed
       ELSE /\ pc' = [pc EXCEPT ![j] = "lost"]
            /\ chatFailed' = TRUE
            /\ UNCHANGED <<threads, hnd, admitted, starts, written>>
  /\ UNCHANGED <<last, nextId, clock, admits, cancelledOk, returned, aborted,
                 sessionExists, rendered, stopWait, stops>>
  /\ UNCHANGED queuePosition
  /\ UNCHANGED <<handlerVars, split>>

\* cancel_queued after its ack (app.ts:570-597); the update of the notice
\* that follows changes no state of the model
CancelQueued(j) ==
  /\ pc[j] = "queued"
  /\ getQueuedMessage(threads, K, j) # <<>>
  /\ LET r == cancelQueued(threads, K, j) IN
     /\ r.ret
     /\ threads' = r.threads
     /\ pc' = [pc EXCEPT ![j] = "cancelled"]
  /\ UNCHANGED <<last, nextId, clock, admits, cancelledOk, returned, hnd,
                 aborted, sessionExists, written, admitted, starts, rendered, stopWait,
                 pnTarget, stops, chatFailed>>
  /\ UNCHANGED queuePosition
  /\ UNCHANGED <<handlerVars, split>>

Init == InitManager /\ InitApp /\ IdleHandler /\ IdleSplit

Next ==
  \/ AppMention
  \/ \E j \in Jobs, ok \in BOOLEAN : PostQueuedDone(j, ok)
  \/ \E j \in Jobs, o \in {"ok", "null", "throw"} : StartDone(j, o)
  \/ \E j \in Jobs : AgentEnd(j)
  \/ \E j \in Jobs : AgentThrow(j)
  \/ \E j \in Jobs, ok \in BOOLEAN, more \in BOOLEAN : ShowResultFirstDone(j, ok, more)
  \/ \E j \in Jobs, ok \in BOOLEAN : ShowResultChunkDone(j, ok)
  \/ \E j \in Jobs, ok \in BOOLEAN : ShowResultErrDone(j, ok)
  \/ \E j \in Jobs, ok \in BOOLEAN : ShowErrorDone(j, ok)
  \/ \E j \in Jobs, ok \in BOOLEAN : ShowErrorRetryDone(j, ok)
  \/ StopClaude
  \/ \E h \in Jobs, ok \in BOOLEAN : StopShowAbortedDone(h, ok)
  \/ \E j \in Jobs : ProcessNow(j)
  \/ \E j \in Jobs, ok \in BOOLEAN : ProcessNowAbortedDone(j, ok)
  \/ \E j \in Jobs : CancelQueued(j)

Spec == Init /\ [][Next]_vars

\* the application in the runs where the stop button is never pressed: every
\* step of it is a step of Spec, and none depends on what abortSession returns
NextNoStop ==
  \/ AppMention
  \/ \E j \in Jobs, ok \in BOOLEAN : PostQueuedDone(j, ok)
  \/ \E j \in Jobs, o \in {"ok", "null", "throw"} : StartDone(j, o)
  \/ \E j \in Jobs : AgentEnd(j)
  \/ \E j \in Jobs : AgentThrow(j)
  \/ \E j \in Jobs, ok \in BOOLEAN, more \in BOOLEAN : ShowResultFirstDone(j, ok, more)
  \/ \E j \in Jobs, ok \in BOOLEAN : ShowResultChunkDone(j, ok)
  \/ \E j \in Jobs, ok \in BOOLEAN : ShowResultErrDone(j, ok)
  \/ \E j \in Jobs, ok \in BOOLEAN : ShowErrorDone(j, ok)
  \/ \E j \in Jobs, ok \in BOOLEAN : ShowErrorRetryDone(j, ok)
  \/ \E j \in Jobs : ProcessNow(j)
  \/ \E j \in Jobs, ok \in BOOLEAN : ProcessNowAbortedDone(j, ok)
  \/ \E j \in Jobs : CancelQueued(j)

SpecNoStop == Init /\ [][NextNoStop]_vars

\* ------------------------------------------------------------------------
\* SpecHandler: one ResponseHandler and the job that owns it.  A world w is
\* [rh, chat, run]; each method of the class is an operator from world to
\* world up to its next await on the chat client, and HChatDone resumes the
\* code that awaits a call.  The chat client completes the calls in flight in
\* any order; a successful update replaces the status message when it
\* completes.
\* ------------------------------------------------------------------------
World == [rh |-> rh, chat |-> chat, run |-> run]

Put(w) ==
  /\ rh' = w.rh
  /\ chat' = w.chat
  /\ run' = w.run

\* client.chat.postMessage / client.chat.update is called
Issue(w, op, by, payload) ==
  [w EXCEPT !.chat.calls =
     Append(@, [op |-> op, by |-> by, payload |-> payload, status |-> "flight"])]

\* threadQueueManager.finishProcessing as seen by this job: whoever calls
\* it, the handler is no longer the thread's current handler
Release(w) == [w EXCEPT !.run.current = FALSE]

start(w) ==
  Issue([w EXCEPT !.rh.lastBlocks = buildThinkingMessage.blocks,
                  !.rh.lastFallbackText = buildThinkingMessage.fallbackText,
                  !.run.pc = "starting"],
        "post", "start", buildThinkingMessage)

startWithExistingMessage_Post(w) ==
  Issue([w EXCEPT !.rh.responseTs = TRUE,
                  !.rh.lastBlocks = buildThinkingMessage.blocks,
                  !.rh.lastFallbackText = buildThinkingMessage.fallbackText,
                  !.run.pc = "starting"],
        "post", "reuse", buildThinkingMessage)

startWithExistingMessage(w) ==
  Issue([w EXCEPT !.rh.responseTs = TRUE,
                  !.rh.lastBlocks = buildThinkingMessage.blocks,
                  !.rh.lastFallbackText = buildThinkingMessage.fallbackText,
                  !.run.pc = "starting"],
        "update", "reuse", buildThinkingMessage)

updateProgress_NoCompletedCheck(w, text, elapsedSeconds, toolCallCount) ==
  IF ~w.rh.responseTs
    THEN w
    ELSE LET m == buildProgressMessage(text, elapsedSeconds, toolCallCount) IN
         Issue([w EXCEPT !.rh.lastBlocks = m.blocks,
                         !.rh.lastFallbackText = m.fallbackText],
               "update", "progress", m)

updateProgress(w, text, elapsedSeconds, toolCallCount) ==
  IF ~w.rh.responseTs \/ w.rh.isCompleted
    THEN w
    ELSE LET m == buildProgressMessage(text, elapsedSeconds, toolCallCount) IN
         Issue([w EXCEPT !.rh.lastBlocks = m.blocks,
                         !.rh.lastFallbackText = m.fallbackText],
               "update", "progress", m)

updateMetadataOnly_InPlace(w, elapsedSeconds) ==
  IF ~w.rh.responseTs \/ Len(w.rh.lastBlocks) = 0 \/ w.rh.isCompleted
    THEN w
    ELSE LET updatedBlocks ==
               [i \in 1..Len(w.rh.lastBlocks) |->
                  ReplaceTime(w.rh.lastBlocks[i], formatDuration(elapsedSeconds))]
         IN Issue([w EXCEPT !.rh.lastBlocks = updatedBlocks], "update", "tick",
                  [blocks |-> updatedBlocks, fallbackText |-> w.rh.lastFallbackText])

\* the copy of lastBlocks is deep, so the stored payload stays as it was
updateMetadataOnly(w, elapsedSeconds) ==
  IF ~w.rh.responseTs \/ Len(w.rh.lastBlocks) = 0 \/ w.rh.isCompleted
    THEN w
    ELSE LET updatedBlocks ==
               [i \in 1..Len(w.rh.lastBlocks) |->
                  ReplaceTime(w.rh.lastBlocks[i], formatDuration(elapsedSeconds))]
         IN Issue(w, "update", "tick",
                  [blocks |-> updatedBlocks, fallbackText |-> w.rh.lastFallbackText])

\* onResult after showResult has returned: processNextInQueue, then
\* handleClaudeQuery and startProcessing return (app.ts:415-418)
onResultRest(w) == Release([w EXCEPT !.run.pc = "done"])

\* onError after showError has returned: processNextInQueue; the rethrow
\* reaches startProcessing's catch: stopTimer, processNextInQueue
\* (app.ts:420-431)
onErrorRest(w) == Release([w EXCEPT !.rh = stopTimer(@), !.run.pc = "done"])

\* showResult after its last send: the delayed re-send is scheduled and the
\* success marker is logged (part_001:559-576)
showResultFinish(w) ==
  [w EXCEPT !.run.resend = "armed", !.run.logged = @ + 1]

\* mutant: showResult lets the failure escape, so handleClaudeQuery's catch
\* invokes onError and with it the handler's showError
showResultError_Rethrow(w) ==
  Issue([w EXCEPT !.run.pc = "showError"], "update", "error", buildErrorMessage)

\* the showError helper local to showResult (part_001:510-524)
showResultError(w) ==
  Issue([w EXCEPT !.run.pc = "showResultErr"], "update", "resultErr", buildErrorMessage)

\* the for loop over additionalChunks, entered with i chunks already posted
showResultLoop(w) ==
  IF w.run.i < Len(w.run.chunks)
    THEN Issue([w EXCEPT !.run.pc = "showResultChunk"],
               "post", "chunk", ChunkMessage(w.run.chunks[w.run.i + 1]))
    ELSE onResultRest(showResultFinish(w))

showResultChunkDone_Continue(w, ok) ==
  showResultLoop([w EXCEPT !.run.i = @ + 1])

\* the postMessage of follow-up chunk i+1 has returned (part_001:541-557)
showResultChunkDone(w, ok) ==
  IF ok THEN showResultLoop([w EXCEPT !.run.i = @ + 1]) ELSE showResultError(w)

showResult_LogOnEntry(w, chunkCount, durationSeconds, toolCallCount) ==
  LET m == buildResultMessage(chunkCount, durationSeconds, toolCallCount)
      w1 == [w EXCEPT !.rh = stopTimer([@ EXCEPT !.isCompleted = TRUE]),
                      !.run.logged = @ + 1]
  IN IF ~w1.rh.responseTs
       THEN onResultRest(w1)
       ELSE Issue([w1 EXCEPT !.rh.lastBlocks = m.firstMessage.blocks,
                             !.rh.lastFallbackText = m.firstMessage.fallbackText,
                             !.run.first = m.firstMessage,
                             !.run.chunks = m.additionalChunks,
                             !.run.i = 0,
                             !.run.pc = "showResult"],
                  "update", "result", m.firstMessage)

showResult(w, chunkCount, durationSeconds, toolCallCount) ==
  LET m == buildResultMessage(chunkCount, durationSeconds, toolCallCount)
      w1 == [w EXCEPT !.rh = stopTimer([@ EXCEPT !.isCompleted = TRUE])]
  IN IF ~w1.rh.responseTs
       THEN onResultRest(w1)
       ELSE Issue([w1 EXCEPT !.rh.lastBlocks = m.firstMessage.blocks,
                             !.rh.lastFallbackText = m.firstMessage.fallbackText,
                             !.run.first = m.firstMessage,
                             !.run.chunks = m.additionalChunks,
                             !.run.i = 0,
                             !.run.pc = "showResult"],
                  "update", "result", m.firstMessage)

showError_TimerLeft(w) ==
  LET w1 == [w EXCEPT !.rh.isCompleted = TRUE]
  IN IF ~w1.rh.responseTs
       THEN onErrorRest(w1)
       ELSE Issue([w1 EXCEPT !.rh.lastBlocks = buildErrorMessage.blocks,
                             !.rh.lastFallbackText = buildErrorMessage.fallbackText,
                             !.run.pc = "showError"],
                  "update", "error", buildErrorMessage)

showError(w) ==
  LET w1 == [w EXCEPT !.rh = stopTimer([@ EXCEPT !.isCompleted = TRUE])]
  IN IF ~w1.rh.responseTs
       THEN onErrorRest(w1)
       ELSE Issue([w1 EXCEPT !.rh.lastBlocks = buildErrorMessage.blocks,
                             !.rh.lastFallbackText = buildErrorMessage.fallbackText,
                             !.run.pc = "showError"],
                  "update", "error", buildErrorMessage)

\* showError's second, text-only attempt (part_001:604-611)
showErrorMinimal(w) ==
  Issue([w EXCEPT !.run.pc = "showErrorRetry"], "update", "errorMinimal",
        MinimalErrorMessage)

\* showAborted as called by stop_claude / process_now; when there is no
\* handle it returns at once and the caller goes on to release the slot
showAborted(w) ==
  LET w1 == [w EXCEPT !.rh = stopTimer(@)]
  IN IF ~w1.rh.responseTs
       THEN Release(w1)
       ELSE Issue(w1, "update", "aborted", buildAbortedMessage)

\* what a completed call leaves on the chat side
Applied(c, n, ok) ==
  LET r == c.calls[n]
      c1 == [c EXCEPT !.calls[n].status = IF ok THEN "ok" ELSE "fail"]
  IN IF ~ok THEN c1
     ELSE IF r.by = "chunk" THEN [c1 EXCEPT !.posts = Append(@, r.payload)]
     ELSE [c1 EXCEPT !.message = r.payload]

\* the code that awaits call n resumes
Resume(w, n, outcome) ==
  LET by == w.chat.calls[n].by
      ok == outcome = "ok"
  IN CASE by = "start" ->
            IF outcome = "ok"
              THEN [w EXCEPT !.rh.responseTs = TRUE, !.rh.timerOn = TRUE,
                             !.run.pc = "streaming"]
              ELSE IF outcome = "null"
                THEN Release([w EXCEPT !.run.pc = "noHandle"])
                ELSE [w EXCEPT !.run.pc = "startThrew"]
       [] by = "reuse" ->
            IF ok
              THEN [w EXCEPT !.rh.timerOn = TRUE, !.run.pc = "streaming"]
              ELSE Release([w EXCEPT !.run.pc = "noHandle"])
       [] by = "progress" -> w
       [] by = "tick" -> IF ok THEN w ELSE [w EXCEPT !.rh = stopTimer(@)]
       [] by = "result" ->
            IF ok THEN showResultLoop(w) ELSE showResultError(w)
       [] by = "chunk" ->
            showResultChunkDone(w, ok)
       [] by = "resultErr" -> onResultRest(w)
       [] by = "error" -> IF ok THEN onErrorRest(w) ELSE showErrorMinimal(w)
       [] by = "errorMinimal" -> onErrorRest(w)
       [] by = "aborted" -> IF ok THEN Release(w) ELSE w
       [] by = "resend" -> w

\* startProcessing enters start() or startWithExistingMessage()
\* (app.ts:384-392)
HStart ==
  /\ run.pc = "admitted"
  /\ Put([(IF run.reuse THEN startWithExistingMessage(World) ELSE start(World))
            EXCEPT !.run.last = "start"])
  /\ UNCHANGED <<queueVars, appVars, split>>

\* a chat call in flight completes: "ok", "fail" (the promise rejects) or,
\* for start()'s postMessage, "null" (a response without ts)
HChatDone(n, outcome) ==
  /\ n \in 1..Len(chat.calls)
  /\ chat.calls[n].status = "flight"
  /\ outcome = "null" => chat.calls[n].by = "start"
  /\ LET w1 == [World EXCEPT !.chat = Applied(@, n, outcome = "ok"),
                             !.run.last = "chatDone"]
     IN Put(Resume(w1, n, outcome))
  /\ UNCHANGED <<queueVars, appVars, split>>

\* the agent reports progress: onProgress forwards it to the handler only
\* while the job is the thread's current job (app.ts:407-413)
HProgress(text, elapsedSeconds, toolCallCount) ==
  /\ run.pc \in {"streaming", "showResult", "showResultChunk", "showResultErr",
                 "showError", "showErrorRetry"}
  /\ run.nProgress < MaxProgress
  /\ LET w1 == [World EXCEPT !.run.nProgress = @ + 1] IN
     IF run.current
       THEN Put(updateProgress([w1 EXCEPT !.run.last = "updateProgress"],
                               text, elapsedSeconds, toolCallCount))
       ELSE Put([w1 EXCEPT !.run.last = "onProgressDropped"])
  /\ UNCHANGED <<queueVars, appVars, split>>

\* the interval set by start / startWithExistingMessage fires
HTick(elapsedSeconds) ==
  /\ rh.timerOn
  /\ run.nTicks < MaxTicks
  /\ Put(updateMetadataOnly([World EXCEPT !.run.nTicks = @ + 1,
                                          !.run.last = "tick"],
                            elapsedSeconds))
  /\ UNCHANGED <<queueVars, appVars, split>>

\* the agent's stream ends (part_001:137-145)
HStreamEnd(chunkCount, durationSeconds, toolCallCount) ==
  /\ run.pc = "streaming"
  /\ IF run.aborted
       THEN Put([World EXCEPT !.run.pc = "done", !.run.last = "streamEnd"])
       ELSE Put(showResult([World EXCEPT !.run.last = "showResult"],
                           chunkCount, durationSeconds, toolCallCount))
  /\ UNCHANGED <<queueVars, appVars, split>>

\* the agent's stream throws (part_001:146-156)
HStreamThrow ==
  /\ run.pc = "streaming"
  /\ IF run.aborted
       THEN Put([World EXCEPT !.run.pc = "done", !.run.last = "streamThrow"])
       ELSE Put(showError([World EXCEPT !.run.last = "showError"]))
  /\ UNCHANGED <<queueVars, appVars, split>>

\* stop_claude or process_now finds the handler as the thread's current
\* handler (app.ts:474-486, 520-529); `effective` tells whether abortSession
\* aborted the signal this job's handleClaudeQuery holds
HAbort(effective) ==
  /\ run.pc # "admitted"
  /\ run.current
  /\ run.nAborts < MaxAborts
  /\ Put(showAborted([World EXCEPT !.run.nAborts = @ + 1,
                                   !.run.aborted = @ \/ effective,
                                   !.run.last = "showAborted"]))
  /\ UNCHANGED <<queueVars, appVars, split>>

\* the timeout set at the end of showResult fires (part_001:560-571)
HResend ==
  /\ run.resend = "armed"
  /\ Put(Issue([World EXCEPT !.run.resend = "fired", !.run.last = "resend"],
               "update", "resend", run.first))
  /\ UNCHANGED <<queueVars, appVars, split>>

NextHandler ==
  \/ HStart
  \/ \E n \in 1..Len(chat.calls), o \in {"ok", "fail", "null"} : HChatDone(n, o)
  \/ \E t \in ProgressTexts, e \in ProgressSeconds : HProgress(t, e, 1)
  \/ \E e \in TickSeconds : HTick(e)
  \/ \E c \in 1..(MaxChunks + 1) : HStreamEnd(c, 3, 1)
  \/ HStreamThrow
  \/ \E eff \in BOOLEAN : HAbort(eff)
  \/ HResend

\* the handler admitted, the queue manager and the application untouched
InitWorld == InitManager /\ InitApp /\ InitHandler /\ IdleSplit

SpecHandler == InitWorld /\ [][NextHandler]_vars

\* the handler while the job is live: start, progress, ticks and the agent's
\* end, with no stop button and before the delayed re-send fires
NextLive ==
  \/ HStart
  \/ \E n \in 1..Len(chat.calls), o \in {"ok", "fail", "null"} : HChatDone(n, o)
  \/ \E t \in ProgressTexts, e \in ProgressSeconds : HProgress(t, e, 1)
  \/ \E e \in TickSeconds : HTick(e)
  \/ \E c \in 1..(MaxChunks + 1) : HStreamEnd(c, 3, 1)
  \/ HStreamThrow

SpecLive == InitWorld /\ [][NextLive]_vars

\* the terminal renders alone: no progress and no refresh tick
NextRender ==
  \/ HStart
  \/ \E n \in 1..Len(chat.calls), o \in {"ok", "fail", "null"} : HChatDone(n, o)
  \/ \E c \in 1..(MaxChunks + 1) : HStreamEnd(c, 3, 1)
  \/ HStreamThrow
  \/ \E eff \in BOOLEAN : HAbort(eff)
  \/ HResend

SpecRender == InitWorld /\ [][NextRender]_vars

\* ------------------------------------------------------------------------
\* Helpers of the properties
\* ------------------------------------------------------------------------
QueuedCount(q) == Cardinality({i \in 1..Len(q) : q[i].status = "queued"})

\* the entry with status queued that was enqueued first (smallest queuedAt),
\* as a 0/1-length sequence
EarliestQueued(q) ==
  LET live == {i \in 1..Len(q) : q[i].status = "queued"} IN
  IF live = {} THEN <<>>
  ELSE <<q[CHOOSE i \in live : \A j \in live : q[i].queuedAt <= q[j].queuedAt]>>

IsQueuedEntry(ts, k, messageId) ==
  \E i \in 1..Len(QueueOf(ts, k)) :
    /\ QueueOf(ts, k)[i].id = messageId
    /\ QueueOf(ts, k)[i].status = "queued"

\* q with its i-th element taken out
Without(q, i) == SubSeq(q, 1, i - 1) \o SubSeq(q, i + 1, Len(q))

\* ------------------------------------------------------------------------
\* C1: between two finishProcessing calls on a key, at most one
\* tryStartProcessing call on that key returns true.
\* ------------------------------------------------------------------------
C1_AtMostOneAdmit == \A k \in Threads : admits[k] <= 1

\* a second tryStartProcessing on an admitted key was made and refused
C1_Witness ==
  /\ last.op = "tryStartProcessing"
  /\ ~last.retBool
  /\ admits[last.key] = 1

\* ------------------------------------------------------------------------
\* C2: in every interleaving of mentions, agent results and errors,
\* stop_claude and process_now on one thread, at most one job at a time is
\* between its successful admission and its own terminal render
\* (showResult, showError or showAborted).  The claim's events do not include
\* chat-client failures, so states after one are left out.
\* ------------------------------------------------------------------------
\* admitted, not yet rendered terminally, and its startProcessing call has
\* not ended without a render either (no handle, aborted stream)
Running(j) ==
  /\ admitted[j]
  /\ ~rendered[j]
  /\ pc[j] \in {"starting", "streaming"}

C2_AtMostOneRunning ==
  ~chatFailed => Cardinality({j \in Jobs : Running(j)}) <= 1

\* ------------------------------------------------------------------------
\* C3: finishProcessing leaves the key not busy with handler and job id
\* cleared (also on an empty queue) and returns the earliest-enqueued entry
\* that is still queued, or null when there is none.
\* ------------------------------------------------------------------------
C3_FinishStep ==
  last'.op = "finishProcessing" =>
    LET k == last'.key IN
    /\ ~isProcessing(threads', k)
    /\ getCurrentHandler(threads', k) = NullHandler
    /\ getCurrentMessageId(threads', k) = NullId
    /\ last'.retMsg = EarliestQueued(QueueOf(threads, k))

C3_FinishClearsAndReturnsEarliest == [][C3_FinishStep]_vars

\* finishProcessing skipped a cancelled head and returned a later entry,
\* while another queued entry stayed behind
C3_Witness ==
  /\ last.op = "finishProcessing"
  /\ last.retMsg # <<>>
  /\ last.retMsg[1].id > 1
  /\ 1 \in cancelledOk
  /\ QueuedCount(QueueOf(threads, last.key)) > 0

\* finishProcessing on a busy key with an empty queue
C3_WitnessEmpty ==
  /\ last.op = "finishProcessing"
  /\ last.retMsg = <<>>
  /\ admits[last.key] = 0
  /\ last.key \in DOMAIN threads


\* ------------------------------------------------------------------------
\* C4: on a busy thread tryStartProcessing returns false and changes nothing
\* (busy flag, current handler, current job id, queue); on a thread that is
\* not busy it returns true and getCurrentMessageId / getCurrentHandler then
\* return the job id and the handler passed in.
\* ------------------------------------------------------------------------
C4_TryStartStep ==
  last'.op = "tryStartProcessing" =>
    LET k == last'.key IN
    IF isProcessing(threads, k)
      THEN /\ ~last'.retBool
           /\ threads' = threads
      ELSE /\ last'.retBool
           /\ isProcessing(threads', k)
           /\ getCurrentMessageId(threads', k) = last'.id
           /\ getCurrentHandler(threads', k) = last'.handler

C4_TryStartFrame == [][C4_TryStartStep]_vars

\* a refused call whose handler and job id both differ from the recorded ones
C4_Witness ==
  /\ last.op = "tryStartProcessing"
  /\ ~last.retBool
  /\ getCurrentMessageId(threads, last.key) # last.id
  /\ getCurrentHandler(threads, last.key) # last.handler
  /\ Len(QueueOf(threads, last.key)) > 0

\* ------------------------------------------------------------------------
\* C5: enqueue appends the job at the tail and returns the 1-based count of
\* the non-cancelled entries of the queue, the new one included, whatever the
\* queue holds (lazily cancelled entries too).
\* ------------------------------------------------------------------------
C5_EnqueueStep ==
  last'.op = "enqueue" =>
    LET k == last'.key IN
    /\ QueueOf(threads', k) = Append(QueueOf(threads, k), last'.retMsg[1])
    /\ last'.retNum = QueuedCount(QueueOf(threads', k))

C5_EnqueueReturnsLivePosition == [][C5_EnqueueStep]_vars

\* ------------------------------------------------------------------------
\* C6: cancelQueued for an id that is not a queued entry of the thread
\* (unknown id, unknown thread, the running job, an already cancelled entry)
\* returns false and leaves the thread state untouched.
\* ------------------------------------------------------------------------
C6_CancelMissStep ==
  (last'.op = "cancelQueued" /\ ~IsQueuedEntry(threads, last'.key, last'.id)) =>
    /\ ~last'.retBool
    /\ threads' = threads

C6_CancelMissNoEffect == [][C6_CancelMissStep]_vars

\* cancelQueued was called again on an entry that is already cancelled and
\* still in the queue
C6_Witness ==
  /\ last.op = "cancelQueued"
  /\ ~last.retBool
  /\ last.id \in cancelledOk
  /\ \E i \in 1..Len(QueueOf(threads, last.key)) :
       QueueOf(threads, last.key)[i].id = last.id

\* cancelQueued was called with the id of the running job
C6_WitnessRunning ==
  /\ last.op = "cancelQueued"
  /\ ~last.retBool
  /\ isProcessing(threads, last.key)
  /\ getCurrentMessageId(threads, last.key) = last.id

\* ------------------------------------------------------------------------
\* C7: cancelQueued on a queued entry returns true and flips only that
\* entry's status to cancelled (same length, same order, same other entries,
\* same busy state); no later finishProcessing or prioritize returns the job.
\* ------------------------------------------------------------------------
C7_CancelHitStep ==
  (last'.op = "cancelQueued" /\ IsQueuedEntry(threads, last'.key, last'.id)) =>
    LET k == last'.key
        q == QueueOf(threads, k)
        q2 == QueueOf(threads', k)
    IN /\ last'.retBool
       /\ Len(q2) = Len(q)
       /\ \A i \in 1..Len(q) :
            IF q[i].id = last'.id
              THEN q2[i] = [q[i] EXCEPT !.status = "cancelled"]
              ELSE q2[i] = q[i]
       /\ isProcessing(threads', k) = isProcessing(threads, k)
       /\ getCurrentHandler(threads', k) = getCurrentHandler(threads, k)
       /\ getCurrentMessageId(threads', k) = getCurrentMessageId(threads, k)

C7_NeverReturnedStep ==
  (last'.op \in {"finishProcessing", "prioritize"} /\ last'.retMsg # <<>>) =>
    last'.retMsg[1].id \notin cancelledOk

C7_CancelMarksInPlace == [][C7_CancelHitStep /\ C7_NeverReturnedStep]_vars

\* finishProcessing scanned past a cancelled entry and handed out a later one
C7_Witness ==
  /\ last.op = "finishProcessing"
  /\ last.retMsg # <<>>
  /\ \E c \in cancelledOk : c < last.retMsg[1].id

\* cancelQueued hit an entry in the middle of a queue of three
C7_WitnessMiddle ==
  /\ last.op = "cancelQueued"
  /\ last.retBool
  /\ Len(QueueOf(threads, last.key)) = 3
  /\ QueueOf(threads, last.key)[2].id = last.id

\* ------------------------------------------------------------------------
\* C8: with distinct job ids, a job is returned at most once by prioritize
\* and finishProcessing together.
\* ------------------------------------------------------------------------
C8_ReturnStep ==
  (last'.op \in {"finishProcessing", "prioritize"} /\ last'.retMsg # <<>>) =>
    last'.retMsg[1].id \notin returned

C8_NoDoubleDequeue == [][C8_ReturnStep]_vars

\* prioritize took a job out, and a later finishProcessing returned another
C8_Witness ==
  /\ last.op = "finishProcessing"
  /\ last.retMsg # <<>>
  /\ Cardinality(returned) >= 2
  /\ \E id \in returned : id > last.retMsg[1].id

\* ------------------------------------------------------------------------
\* C9: prioritize returns the entry with the given id and removes exactly
\* that entry when it is present with status queued (busy flag, current job
\* and the order of the other entries unchanged); when the entry is missing
\* or cancelled it returns null and changes nothing.
\* ------------------------------------------------------------------------
C9_PrioritizeStep ==
  last'.op = "prioritize" =>
    LET k == last'.key
        q == QueueOf(threads, k)
    IN IF IsQueuedEntry(threads, k, last'.id)
         THEN \E i \in 1..Len(q) :
                /\ q[i].id = last'.id
                /\ last'.retMsg = <<q[i]>>
                /\ threads' = [threads EXCEPT ![k].queue = Without(q, i)]
         ELSE /\ last'.retMsg = <<>>
              /\ threads' = threads

C9_PrioritizeFrame == [][C9_PrioritizeStep]_vars

\* prioritize took the middle one of three entries out of the queue
C9_Witness ==
  /\ last.op = "prioritize"
  /\ last.retMsg # <<>>
  /\ Len(QueueOf(threads, last.key)) = 2
  /\ QueueOf(threads, last.key)[1].id < last.id
  /\ QueueOf(threads, last.key)[2].id > last.id

\* prioritize was refused for an entry that is cancelled but still queued
C9_WitnessCancelled ==
  /\ last.op = "prioritize"
  /\ last.retMsg = <<>>
  /\ last.id \in cancelledOk
  /\ \E i \in 1..Len(QueueOf(threads, last.key)) :
       QueueOf(threads, last.key)[i].id = last.id


\* ------------------------------------------------------------------------
\* C10: for every admitted job exactly one terminal payload (result, error
\* or aborted) is ever written to its status message, in every interleaving
\* of agent completion, agent error and the stop_claude / process_now
\* actions: never two different ones, and one once the job's agent call has
\* come to its end.  Chat-client failures are left out of the claim's cases.
\* ------------------------------------------------------------------------
C10_ExactlyOneTerminalPayload ==
  ~chatFailed =>
    \A j \in Jobs :
      admitted[j] =>
        /\ Cardinality(written[j]) <= 1
        /\ (pc[j] = "done" /\ stopWait[j] = 0 /\ (\A i \in Jobs : pnTarget[i] # j))
             => written[j] # {}


\* ------------------------------------------------------------------------
\* Helpers of the handler properties
\* ------------------------------------------------------------------------
\* the calls that a step has issued
NewCalls == SubSeq(chat'.calls, Len(chat.calls) + 1, Len(chat'.calls))

CallsBy(c, bys) == {n \in 1..Len(c.calls) : c.calls[n].by \in bys}

\* showResult or showError has been invoked on the handler (each issues its
\* first update in the step that enters it)
TerminalInvoked == CallsBy(chat, {"result", "error"}) # {}

\* the step is an updateProgress call / a refresh tick
IsProgressStep == run'.nProgress # run.nProgress /\ run'.last = "updateProgress"

IsTickStep == run'.nTicks # run.nTicks

\* ------------------------------------------------------------------------
\* C11: once showResult or showError has been invoked on a handler, every
\* later updateProgress call and every refresh tick that begins afterwards
\* issues no chat update, and the completed flag, once set, is never reset.
\* ------------------------------------------------------------------------
C11_Step ==
  /\ rh.isCompleted => rh'.isCompleted
  /\ TerminalInvoked =>
       /\ rh.isCompleted
       /\ (IsProgressStep \/ IsTickStep) => chat'.calls = chat.calls

C11_TerminalSilencesProgress == [][C11_Step]_vars

\* updateProgress was called on the handler after showResult had been entered
C11_Witness ==
  /\ run.last = "updateProgress"
  /\ CallsBy(chat, {"result"}) # {}
  /\ run.pc = "showResult"


\* ------------------------------------------------------------------------
\* C12: after the aborted payload has been rendered for a job (showAborted's
\* update has been applied), no later updateProgress call and no later
\* refresh tick on that handler issues an update of the message.
\* ------------------------------------------------------------------------
AbortedRendered ==
  \E n \in CallsBy(chat, {"aborted"}) : chat.calls[n].status = "ok"

C12_Step ==
  AbortedRendered =>
    \A n \in 1..Len(NewCalls) : NewCalls[n].by \notin {"progress", "tick"}

C12_NoProgressAfterAborted == [][C12_Step]_vars


\* ------------------------------------------------------------------------
\* C13: showAborted is serialized with completion: for one job, showAborted
\* is never in progress (its chat.update awaited by a stop_claude or
\* process_now handler) on a handler on which showResult or showError is in
\* progress or has already run.  Chat-client failures are left out of the
\* claim's cases.
\* ------------------------------------------------------------------------
C13_AbortedSerialized ==
  ~chatFailed =>
    \A j \in Jobs :
      /\ pnTarget[j] # NullHandler => ~hnd[pnTarget[j]].isCompleted
      /\ stopWait[j] > 0 => ~hnd[j].isCompleted


\* ------------------------------------------------------------------------
\* C14: a refresh tick (updateMetadataOnly), run any number of times between
\* two renders, sends a payload equal to the last stored payload in every
\* field except the elapsed/duration time text of its context block, leaves
\* the stored last payload itself unmodified, and sends nothing when no
\* handle or no stored payload exists yet.
\* ------------------------------------------------------------------------
\* the tokens a time text is made of: digits, the two units and blanks
IsTimeToken(tok) == IsDigits(tok) \/ tok \in {"min", "sec", " "}

\* the text of a metadata line from its status word on, and what is before it
RECURSIVE FromStatus(_)
FromStatus(t) ==
  IF t = <<>> \/ Head(t) \in {"elapsed", "taken"} THEN t ELSE FromStatus(Tail(t))

BeforeStatus(t) == SubSeq(t, 1, Len(t) - Len(FromStatus(t)))

\* two blocks that differ at most in the time text of a context block
SameButTime(a, b) ==
  /\ a.type = b.type
  /\ IF a.type = "context"
       THEN /\ FromStatus(a.text) = FromStatus(b.text)
            /\ Len(BeforeStatus(a.text)) >= 1 /\ Len(BeforeStatus(b.text)) >= 1
            /\ Head(BeforeStatus(a.text)) = Head(BeforeStatus(b.text))
            /\ \A i \in 2..Len(BeforeStatus(a.text)) : IsTimeToken(BeforeStatus(a.text)[i])
            /\ \A i \in 2..Len(BeforeStatus(b.text)) : IsTimeToken(BeforeStatus(b.text)[i])
       ELSE a = b

C14_Step ==
  IsTickStep =>
    /\ rh' = rh
    /\ (~rh.responseTs \/ rh.lastBlocks = <<>>) => chat'.calls = chat.calls
    /\ Len(NewCalls) <= 1
    /\ \A n \in 1..Len(NewCalls) :
         /\ NewCalls[n].op = "update"
         /\ NewCalls[n].payload.fallbackText = rh.lastFallbackText
         /\ Len(NewCalls[n].payload.blocks) = Len(rh.lastBlocks)
         /\ \A i \in 1..Len(rh.lastBlocks) :
              SameButTime(NewCalls[n].payload.blocks[i], rh.lastBlocks[i])

C14_TickChangesOnlyTime == [][C14_Step]_vars

\* a second tick after a progress render has sent the progress payload with
\* a new time text, and the stored payload still carries the old one
C14_Witness ==
  /\ run.last = "tick"
  /\ run.nTicks = 2
  /\ rh.lastFallbackText = "working"
  /\ chat.calls[Len(chat.calls)].by = "tick"
  /\ chat.calls[Len(chat.calls)].payload.blocks # rh.lastBlocks
  /\ chat.calls[Len(chat.calls)].payload.blocks[2] = rh.lastBlocks[2]


\* ------------------------------------------------------------------------
\* C15: in every reachable state, a handler that has rendered a terminal
\* state (result, error or aborted) has no active refresh timer, also when
\* the terminal render happened while start or startWithExistingMessage was
\* still awaiting the chat client.  Chat-client failures are left out of the
\* claim's cases.
\* ------------------------------------------------------------------------
C15_NoTimerAfterTerminal ==
  ~chatFailed =>
    \A j \in Jobs : written[j] # {} => ~hnd[j].timerOn


\* ------------------------------------------------------------------------
\* C16: after a successful showResult, once every chat update issued for the
\* message has been applied (a refresh tick that passed its completed checks
\* before the flag was set and the delayed re-send included), the status
\* message shows the result payload and not a progress payload.  The runs
\* with a stop_claude / process_now press or with an updateProgress call are
\* left out: only start, refresh ticks and showResult touch the message.
\* ------------------------------------------------------------------------
C16_ResultStaysVisible ==
  ( /\ run.resend = "fired"
    /\ run.nAborts = 0
    /\ run.nProgress = 0
    /\ \A n \in 1..Len(chat.calls) : chat.calls[n].status = "ok" )
  => chat.message = run.first


\* ------------------------------------------------------------------------
\* C17: showResult updates the primary message with the first chunk and
\* then posts the remaining chunks as follow-up messages strictly in chunk
\* order; at the first failing update or post it attempts one error-payload
\* update on the primary message, posts no later chunk, and returns without
\* throwing.
\* ------------------------------------------------------------------------
\* the calls showResult has made so far, in the order it made them
RECURSIVE ResultCalls(_)
ResultCalls(cs) ==
  IF cs = <<>> THEN <<>>
  ELSE IF Head(cs).by \in {"result", "chunk", "resultErr"}
         THEN <<Head(cs)>> \o ResultCalls(Tail(cs))
         ELSE ResultCalls(Tail(cs))

\* number of follow-up chunks among the first n calls of r
ChunksIn(r, n) == Cardinality({m \in 1..n : r[m].by = "chunk"})

C17_ResultSendsInOrder ==
  LET r == ResultCalls(chat.calls) IN
  /\ r # <<>> =>
       /\ r[1].by = "result" /\ r[1].op = "update" /\ r[1].payload = run.first
  /\ \A n \in 2..Len(r) :
       /\ r[n].by # "result"
       /\ r[n].by = "chunk" =>
            /\ r[n - 1].status = "ok"
            /\ r[n - 1].by \in {"result", "chunk"}
            /\ r[n].op = "post"
            /\ ChunksIn(r, n) <= Len(run.chunks)
            /\ r[n].payload = ChunkMessage(run.chunks[ChunksIn(r, n)])
       /\ r[n].by = "resultErr" =>
            /\ r[n - 1].status = "fail"
            /\ r[n - 1].by \in {"result", "chunk"}
            /\ r[n].op = "update"
            /\ r[n].payload = buildErrorMessage
  /\ \A n \in 1..Len(r) :
       (r[n].status = "fail" /\ r[n].by \in {"result", "chunk"} /\ n < Len(r))
         => (n + 1 = Len(r) /\ r[n + 1].by = "resultErr")
  /\ (r # <<>> /\ r[Len(r)].status # "flight"
        /\ (r[Len(r)].by = "resultErr"
              \/ (r[Len(r)].status = "ok" /\ ChunksIn(r, Len(r)) = Len(run.chunks))))
       => run.pc = "done"
  /\ chat.posts = [n \in 1..Len(chat.posts) |-> ChunkMessage(run.chunks[n])]

\* the first follow-up chunk of three went out, the second failed: the error
\* payload was attempted once and showResult has returned
C17_Witness ==
  /\ Len(run.chunks) = 2
  /\ Len(chat.posts) = 1
  /\ \E n \in CallsBy(chat, {"chunk"}) : chat.calls[n].status = "fail"
  /\ \E n \in CallsBy(chat, {"resultErr"}) : chat.calls[n].status # "flight"
  /\ run.pc = "done"


\* ------------------------------------------------------------------------
\* C18: showError marks the handler completed and stops the timer before any
\* chat call, then attempts the error-payload update; only if that update
\* fails does it attempt exactly one minimal text-only update, and it never
\* throws whatever the chat client does.
\* ------------------------------------------------------------------------
\* the calls showError has made so far, in the order it made them
RECURSIVE ErrorCalls(_)
ErrorCalls(cs) ==
  IF cs = <<>> THEN <<>>
  ELSE IF Head(cs).by \in {"error", "errorMinimal"}
         THEN <<Head(cs)>> \o ErrorCalls(Tail(cs))
         ELSE ErrorCalls(Tail(cs))

C18_Step ==
  LET e == ErrorCalls(chat.calls)
      e2 == ErrorCalls(chat'.calls)
  IN /\ (e = <<>> /\ e2 # <<>>) =>
          /\ rh'.isCompleted /\ ~rh'.timerOn
          /\ Len(e2) = 1
          /\ e2[1].by = "error" /\ e2[1].op = "update"
          /\ e2[1].payload = buildErrorMessage
     /\ (e # <<>> /\ Len(e2) > Len(e)) =>
          /\ Len(e) = 1 /\ Len(e2) = 2
          /\ e[1].status = "flight" /\ e2[1].status = "fail"
          /\ e2[2].by = "errorMinimal" /\ e2[2].op = "update"
          /\ e2[2].payload = MinimalErrorMessage
     /\ (e2 # <<>> /\ e2[Len(e2)].status # "flight"
           /\ (e2[Len(e2)].by = "errorMinimal" \/ e2[Len(e2)].status = "ok"))
          => run'.pc = "done"
     /\ (e2 # <<>> /\ e2[1].status = "fail") => Len(e2) = 2

C18_ShowErrorAttempts == [][C18_Step]_vars

\* both the error update and the minimal update failed, and showError has
\* returned to onError
C18_Witness ==
  /\ \E n \in CallsBy(chat, {"error"}) : chat.calls[n].status = "fail"
  /\ \E n \in CallsBy(chat, {"errorMinimal"}) : chat.calls[n].status = "fail"
  /\ run.pc = "done"
  /\ rh.isCompleted


\* ------------------------------------------------------------------------
\* C19: the TURNAROUND_SUCCESS marker is logged exactly once for each job
\* whose result render (first-chunk update and all follow-up posts)
\* succeeded, only after those sends, and never for a job that ended in
\* error, in abort (the stream ended with the signal aborted, so that
\* showResult never ran) or in a failed result render.
\* ------------------------------------------------------------------------
\* the first-chunk update and every follow-up post have succeeded
RenderOk ==
  /\ \E n \in CallsBy(chat, {"result"}) : chat.calls[n].status = "ok"
  /\ Cardinality({n \in CallsBy(chat, {"chunk"}) : chat.calls[n].status = "ok"})
       = Len(run.chunks)

C19_Step ==
  /\ run.logged = (IF RenderOk THEN 1 ELSE 0)
  /\ run'.logged >= run.logged
  /\ CallsBy(chat, {"error"}) # {} => run.logged = 0
  /\ (\E n \in CallsBy(chat, {"result", "chunk"}) : chat.calls[n].status = "fail")
       => run.logged = 0
  /\ (run.pc = "done" /\ CallsBy(chat, {"result"}) = {}) => run.logged = 0

C19_SuccessLoggedOnce == [][C19_Step]_vars

\* a result of three chunks was rendered and the marker logged
C19_Witness ==
  /\ run.logged = 1
  /\ Len(run.chunks) = 2
  /\ Len(chat.posts) = 2

\* a job that ended in abort: no marker
C19_WitnessAborted ==
  /\ run.pc = "done"
  /\ run.aborted
  /\ run.last = "streamEnd"
  /\ run.logged = 0


\* ------------------------------------------------------------------------
\* C20: if starting or reusing the renderer yields no message handle after
\* admission was granted, startProcessing releases the thread (it is not
\* busy afterwards) and never invokes the agent for that job.
\* ------------------------------------------------------------------------
\* the job's start() / startWithExistingMessage() has ended without a handle
NoHandleYielded(p) == p \in {"noHandle", "startThrew"}

C20_Step ==
  \A j \in Jobs :
    /\ (pc[j] = "starting" /\ NoHandleYielded(pc'[j])) => ~isProcessing(threads', K)
    /\ NoHandleYielded(pc[j]) => pc'[j] = pc[j]

C20_NoHandleReleases == [][C20_Step]_vars


\* ------------------------------------------------------------------------
\* C21..C30
\* ------------------------------------------------------------------------
\* C21: a result or error callback that fires for a job whose id is not the
\* thread's current job id is dropped: it renders nothing on a message and
\* does not go on to release the thread's slot (no chat call has failed)
C21_Step ==
  \A j \in Jobs :
    (~chatFailed /\ pc[j] = "streaming" /\ pc'[j] \in {"showResult", "showError"})
      => getCurrentMessageId(threads, K) = j

C21_StaleCallbackDropped == [][C21_Step]_vars


\* ------------------------------------------------------------------------
\* SpecMention: the application in the runs where no button is pressed
\* (no stop_claude, process_now or cancel_queued): mentions arrive, and the
\* chat calls and agent streams in flight complete.  Every step of it is a
\* step of Spec.
\* ------------------------------------------------------------------------
\* the continuations of the awaits: a chat call or an agent stream returns
Completions ==
  \/ \E j \in Jobs, ok \in BOOLEAN : PostQueuedDone(j, ok)
  \/ \E j \in Jobs, o \in {"ok", "null", "throw"} : StartDone(j, o)
  \/ \E j \in Jobs : AgentEnd(j)
  \/ \E j \in Jobs : AgentThrow(j)
  \/ \E j \in Jobs, ok \in BOOLEAN, more \in BOOLEAN : ShowResultFirstDone(j, ok, more)
  \/ \E j \in Jobs, ok \in BOOLEAN : ShowResultChunkDone(j, ok)
  \/ \E j \in Jobs, ok \in BOOLEAN : ShowResultErrDone(j, ok)
  \/ \E j \in Jobs, ok \in BOOLEAN : ShowErrorDone(j, ok)
  \/ \E j \in Jobs, ok \in BOOLEAN : ShowErrorRetryDone(j, ok)

NextMention ==
  \/ AppMention
  \/ Completions

SpecMention == Init /\ [][NextMention]_vars

\* SpecMention with the scheduling of the event loop: a promise that can
\* settle eventually settles and its continuation runs; mentions are the
\* user's and need not come
SpecMentionFair == SpecMention /\ WF_vars(Completions)

\* C22: every job admitted on a thread is eventually followed by a release of
\* the thread's slot (the job stops being the thread's current job), on every
\* path, chat-client failures included
C22_AdmittedEventuallyReleased ==
  \A j \in Jobs :
    (getCurrentMessageId(threads, K) = j) ~> (getCurrentMessageId(threads, K) # j)


\* the mention of job j has been received and the job has not been started,
\* dropped or cancelled yet: its queued notice is being posted or it is queued
Waiting(j) == pc[j] \in {"posting", "queued"}

\* C23: with no process_now and no cancel, jobs of a thread start in the
\* order of their mentions: a later mention is never admitted while an
\* earlier one is still waiting (no chat call has failed)
C23_StartsInMentionOrder ==
  ~chatFailed =>
    \A i \in Jobs, j \in Jobs : (i < j /\ admitted[j]) => ~Waiting(i)


\* the ids of the queue of thread k, front first
C24_QueueIds(ts, k) == [i \in 1..Len(QueueOf(ts, k)) |-> QueueOf(ts, k)[i].id]

\* C24: when mentions J2 and then J3 arrive while J1 is running and none is
\* cancelled, J2's queued notice shows position 1 and J3's shows position 2,
\* and once both are enqueued the queue holds J2 before J3 (no chat call has
\* failed)
C24_NoticePositions ==
  (/\ ~chatFailed
   /\ getCurrentMessageId(threads, K) = 1
   /\ Waiting(2)
   /\ Waiting(3))
    => /\ queuePosition[2] = 1
       /\ queuePosition[3] = 2
       /\ (pc[2] = "queued" /\ pc[3] = "queued") => C24_QueueIds(threads, K) = <<2, 3>>


\* ------------------------------------------------------------------------
\* SpecPromote: the application in the runs where process_now is the only
\* button pressed and every chat call succeeds: mentions arrive, jobs are
\* queued, promoted by process_now, and end with a result or an error.
\* Every step of it is a step of Spec.
\* ------------------------------------------------------------------------
NextPromote ==
  \/ AppMention
  \/ \E j \in Jobs : PostQueuedDone(j, TRUE)
  \/ \E j \in Jobs : StartDone(j, "ok")
  \/ \E j \in Jobs : AgentEnd(j)
  \/ \E j \in Jobs : AgentThrow(j)
  \/ \E j \in Jobs : ShowResultFirstDone(j, TRUE, FALSE)
  \/ \E j \in Jobs : ShowErrorDone(j, TRUE)
  \/ \E j \in Jobs : ProcessNow(j)
  \/ \E j \in Jobs : ProcessNowAbortedDone(j, TRUE)

SpecPromote == Init /\ [][NextPromote]_vars

\* C25: each job gets a successful admission at most once over its lifetime
C25_AdmittedAtMostOnce == \A j \in Jobs : starts[j] <= 1

\* a job taken out of the queue by process_now has been admitted and is
\* running on its notice, and the job that was running before it (the one
\* process_now aborted) has since completed
C25_Witness ==
  \E i \in Jobs, j \in Jobs :
    /\ i # j
    /\ starts[j] = 1
    /\ hnd[j].responseTs
    /\ pc[j] = "streaming"
    /\ pc[i] = "done"
    /\ "aborted" \in written[i]


\* ------------------------------------------------------------------------
\* SpecStop: the application in the runs where stop_claude is the only
\* button pressed.  Every step of it is a step of Spec.
\* ------------------------------------------------------------------------
\* the continuations of stop_claude's await of showAborted
StopCompletions == \E h \in Jobs, ok \in BOOLEAN : StopShowAbortedDone(h, ok)

NextStop ==
  \/ AppMention
  \/ Completions
  \/ StopClaude
  \/ StopCompletions

SpecStop == Init /\ [][NextStop]_vars

\* SpecStop with the scheduling of the event loop: a promise that can settle
\* eventually settles and its continuation runs; mentions and button presses
\* are the user's and need not come
SpecStopFair == SpecStop /\ WF_vars(Completions) /\ WF_vars(StopCompletions)

\* C26: when the running job i is stopped while job j is queued (stop_claude
\* is awaiting showAborted on i's message), j is eventually admitted, also
\* when the chat update made by showAborted fails
C26_StopLeadsToNext ==
  \A i \in Jobs, j \in Jobs :
    (/\ i # j
     /\ getCurrentMessageId(threads, K) = i
     /\ stopWait[i] > 0
     /\ IsQueuedEntry(threads, K, j))
      ~> admitted[j]


\* the chat calls that render the job's status (thinking, progress, refresh,
\* terminal payloads): every call but the posts of follow-up chunks
C27_StatusCalls(c) == {n \in 1..Len(c.calls) : c.calls[n].by # "chunk"}

\* C27: a job started out of the queue renders its thinking, progress and
\* terminal payloads on the message of its own queued notice: once started
\* the handler holds that handle, every status call is a chat.update on it,
\* and no primary status message is posted
C27_PromotedReusesNotice ==
  run.reuse =>
    /\ run.pc # "admitted" => rh.responseTs
    /\ \A n \in C27_StatusCalls(chat) :
         /\ chat.calls[n].op = "update"
         /\ chat.calls[n].by # "start"

\* a promoted job has rendered thinking, progress and its result, all on the
\* notice, which now shows the result
C27_Witness ==
  /\ run.reuse
  /\ run.pc = "done"
  /\ \E n \in C27_StatusCalls(chat) :
       chat.calls[n].by = "reuse" /\ chat.calls[n].status = "ok"
  /\ \E n \in C27_StatusCalls(chat) :
       chat.calls[n].by = "progress" /\ chat.calls[n].status = "ok"
  /\ \E n \in C27_StatusCalls(chat) :
       chat.calls[n].by = "result" /\ chat.calls[n].status = "ok"
  /\ chat.message = run.first


\* ------------------------------------------------------------------------
\* SpecThreads: the queue manager with two thread keys, driven call by call,
\* and the periodic cleanup.  Time is the clock: each enqueue stamps its
\* message with a later instant, and a cleanup runs at an instant `now` at or
\* after the last stamp.
\* ------------------------------------------------------------------------
\* thread keys in use in SpecThreads
Keys == {"t1", "t2"}
\* number of messages enqueued in SpecThreads
MaxEntries == 2
\* largest maxAgeMs passed to cleanupOldThreads, and longest time that passes
\* before a cleanup, in clock units
MaxAge == 1
\* the instant after which the cleanup interval no longer fires in SpecThreads
MaxClock == 3

\* state.queue.filter(old).forEach(msg => msg.status = "cancelled")
MarkOld(q, now, maxAgeMs) ==
  [i \in 1..Len(q) |->
     IF now - q[i].queuedAt > maxAgeMs
       THEN [q[i] EXCEPT !.status = "cancelled"]
       ELSE q[i]]

\* mutant: the second delete forgets the busy check
cleanupOldThreads_DropBusy(ts, now, maxAgeMs) ==
  LET Deleted(k) ==
        \/ ~ts[k].isProcessing /\ Len(ts[k].queue) = 0
        \/ QueuedCount(MarkOld(ts[k].queue, now, maxAgeMs)) = 0
  IN [k \in {x \in DOMAIN ts : ~Deleted(x)} |->
        [ts[k] EXCEPT !.queue = MarkOld(@, now, maxAgeMs)]]

\* cleanupOldThreads(maxAgeMs) run at Date.now() = now: the Map after the loop
cleanupOldThreads(ts, now, maxAgeMs) ==
  LET Deleted(k) ==
        \/ ~ts[k].isProcessing /\ Len(ts[k].queue) = 0
        \/ ~ts[k].isProcessing
             /\ QueuedCount(MarkOld(ts[k].queue, now, maxAgeMs)) = 0
  IN [k \in {x \in DOMAIN ts : ~Deleted(x)} |->
        [ts[k] EXCEPT !.queue = MarkOld(@, now, maxAgeMs)]]

\* the ids waiting in the queue of some thread
AllQueuedIds == UNION {IdsOf(QueueOf(threads, k)) : k \in Keys}

TTryStartProcessing(k, handler, messageId) ==
  /\ messageId <= nextId + 1
  /\ messageId \notin AllQueuedIds
  /\ LET r == tryStartProcessing(threads, k, handler, messageId) IN
     /\ threads' = r.threads
     /\ last' = Call("tryStartProcessing", k, handler, messageId, r.ret, <<>>, 0)
  /\ nextId' = IF messageId > nextId THEN messageId ELSE nextId
  /\ UNCHANGED <<clock, admits, cancelledOk, returned, stops>>
  /\ UNCHANGED <<pc, hnd, aborted, sessionExists, written, admitted, rendered,
                 stopWait, pnTarget, chatFailed, queuePosition, starts>>
  /\ UNCHANGED <<handlerVars, split>>

TFinishProcessing(k) ==
  LET r == finishProcessing(threads, k) IN
  /\ threads' = r.threads
  /\ last' = Call("finishProcessing", k, NullHandler, NullId, FALSE, r.ret, 0)
  /\ UNCHANGED <<nextId, clock, admits, cancelledOk, returned, stops>>
  /\ UNCHANGED <<pc, hnd, aborted, sessionExists, written, admitted, rendered,
                 stopWait, pnTarget, chatFailed, queuePosition, starts>>
  /\ UNCHANGED <<handlerVars, split>>

TEnqueue(k) ==
  /\ nextId < MaxEntries
  /\ LET m == [id |-> nextId + 1, status |-> "queued", queuedAt |-> clock + 1]
         r == enqueue(threads, k, m) IN
     /\ threads' = r.threads
     /\ last' = Call("enqueue", k, NullHandler, m.id, FALSE, <<m>>, r.ret)
  /\ nextId' = nextId + 1
  /\ clock' = clock + 1
  /\ UNCHANGED <<admits, cancelledOk, returned, stops>>
  /\ UNCHANGED <<pc, hnd, aborted, sessionExists, written, admitted, rendered,
                 stopWait, pnTarget, chatFailed, queuePosition, starts>>
  /\ UNCHANGED <<handlerVars, split>>

TCancelQueued(k, messageId) ==
  LET r == cancelQueued(threads, k, messageId) IN
  /\ threads' = r.threads
  /\ last' = Call("cancelQueued", k, NullHandler, messageId, r.ret, <<>>, 0)
  /\ UNCHANGED <<nextId, clock, admits, cancelledOk, returned, stops>>
  /\ UNCHANGED <<pc, hnd, aborted, sessionExists, written, admitted, rendered,
                 stopWait, pnTarget, chatFailed, queuePosition, starts>>
  /\ UNCHANGED <<handlerVars, split>>

TPrioritize(k, messageId) ==
  LET r == prioritize(threads, k, messageId) IN
  /\ threads' = r.threads
  /\ last' = Call("prioritize", k, NullHandler, messageId, FALSE, r.ret, 0)
  /\ UNCHANGED <<nextId, clock, admits, cancelledOk, returned, stops>>
  /\ UNCHANGED <<pc, hnd, aborted, sessionExists, written, admitted, rendered,
                 stopWait, pnTarget, chatFailed, queuePosition, starts>>
  /\ UNCHANGED <<handlerVars, split>>

\* the cleanup interval fires (app.ts:604-610) after `passed` clock units,
\* with Date.now() = clock + passed
TCleanupOldThreads(maxAgeMs, passed) ==
  /\ clock + passed <= MaxClock
  /\ clock' = clock + passed
  /\ threads' = cleanupOldThreads(threads, clock + passed, maxAgeMs)
  /\ last' = Call("cleanupOldThreads", "t1", NullHandler, NullId, FALSE, <<>>, 0)
  /\ UNCHANGED <<nextId, admits, cancelledOk, returned, stops>>
  /\ UNCHANGED <<pc, hnd, aborted, sessionExists, written, admitted, rendered,
                 stopWait, pnTarget, chatFailed, queuePosition, starts>>
  /\ UNCHANGED <<handlerVars, split>>

\* as in startProcessing, every admission is tried with the handler created
\* for the job, so the job's id names its handler too (app.ts:376-382)
NextThreads ==
  \/ \E k \in Keys, id \in 1..MaxEntries : TTryStartProcessing(k, id, id)
  \/ \E k \in Keys : TFinishProcessing(k)
  \/ \E k \in Keys : TEnqueue(k)
  \/ \E k \in Keys, id \in 1..MaxEntries : TCancelQueued(k, id)
  \/ \E k \in Keys, id \in 1..MaxEntries : TPrioritize(k, id)
  \/ \E maxAgeMs \in 0..MaxAge, passed \in 0..MaxAge :
       TCleanupOldThreads(maxAgeMs, passed)

SpecThreads == InitQueue /\ [][NextThreads]_vars


\* entry e is older than maxAgeMs at the instant now
C28_OlderThan(e, now, maxAgeMs) == now - e.queuedAt > maxAgeMs

\* what C28 says of one cleanupOldThreads(maxAgeMs) call made at `now` that
\* takes the Map from `before` to `after`
C28_Post(before, after, now, maxAgeMs) ==
  /\ DOMAIN after \subseteq DOMAIN before
  /\ \A k \in DOMAIN before :
       LET q == before[k].queue
           holdsLive == \E i \in 1..Len(q) :
                          q[i].status = "queued" /\ ~C28_OlderThan(q[i], now, maxAgeMs)
       IN /\ k \notin DOMAIN after <=> (~before[k].isProcessing /\ ~holdsLive)
          /\ before[k].isProcessing => k \in DOMAIN after
          /\ k \in DOMAIN after =>
               /\ Len(after[k].queue) = Len(q)
               /\ \A i \in 1..Len(q) :
                    /\ C28_OlderThan(q[i], now, maxAgeMs)
                         => after[k].queue[i].status = "cancelled"
                    /\ now - q[i].queuedAt < maxAgeMs
                         => after[k].queue[i] = q[i]

\* C28: after cleanupOldThreads(maxAge) every queue entry older than maxAge
\* is cancelled, no younger entry has been changed, and a thread's state has
\* been removed exactly when the thread is not busy and is left with no
\* non-cancelled entry; a busy thread's state is never removed
C28_Step ==
  \A maxAgeMs \in 0..MaxAge, passed \in 0..MaxAge :
    TCleanupOldThreads(maxAgeMs, passed)
      => C28_Post(threads, threads', clock + passed, maxAgeMs)

C28_CleanupOldThreads == [][C28_Step]_vars

\* a cleanup has just run on a thread that is not busy: it has cancelled the
\* older of its two entries, left the younger one queued, and kept the state
C28_Witness ==
  /\ last.op = "cleanupOldThreads"
  /\ DOMAIN threads = {"t1"}
  /\ ~threads["t1"].isProcessing
  /\ Len(threads["t1"].queue) = 2
  /\ threads["t1"].queue[1].status = "cancelled"
  /\ threads["t1"].queue[2].status = "queued"
  /\ clock - threads["t1"].queue[1].queuedAt > clock - threads["t1"].queue[2].queuedAt


\* C29: tryStartProcessing, finishProcessing, enqueue, cancelQueued and
\* prioritize applied to one thread key leave the state of every other thread
\* key (busy flag, current job, current handler, queue) as it was, and create
\* or remove no state for it
C29_Step ==
  last'.op \in {"tryStartProcessing", "finishProcessing", "enqueue",
                "cancelQueued", "prioritize"}
    => \A k \in Keys \ {last'.key} :
         /\ k \in DOMAIN threads' <=> k \in DOMAIN threads
         /\ k \in DOMAIN threads => threads'[k] = threads[k]

C29_OtherThreadsUnchanged == [][C29_Step]_vars

\* a call has just released thread t1 while thread t2 is busy with a job and
\* holds a queued entry
C29_Witness ==
  /\ last.op = "finishProcessing"
  /\ last.key = "t1"
  /\ DOMAIN threads = Keys
  /\ threads["t2"].isProcessing
  /\ threads["t2"].currentMessageId # NullId
  /\ QueuedCount(threads["t2"].queue) = 1


\* ------------------------------------------------------------------------
\* SpecSplit: splitTextForSlack(text, maxLength) (slack-message.ts:64-96).
\* A string is the sequence of its characters; index i of the code (from 0)
\* is position i + 1 of the sequence.
\* ------------------------------------------------------------------------
\* longest text passed to splitTextForSlack
MaxTextLen == 5
\* largest maxLength passed to splitTextForSlack
MaxSplitLength == 3

\* characters of the texts: two that are no whitespace, and the whitespace
\* the code searches for ("\n", " ") or only trims ("\t")
Whitespace == {"\n", " ", "\t"}
Chars == {"a", "b"} \cup Whitespace
Texts == UNION {[1..n -> Chars] : n \in 0..MaxTextLen}

\* String.prototype.lastIndexOf(ch, fromIndex): the last index <= fromIndex
\* holding ch, or -1; a negative fromIndex counts as 0
LastIndexOf(s, ch, fromIndex) ==
  LET from == IF fromIndex < 0 THEN 0 ELSE fromIndex
      I == {i \in 0..(Len(s) - 1) : i <= from /\ s[i + 1] = ch} IN
  IF I = {} THEN -1 ELSE CHOOSE i \in I : \A j \in I : j <= i

\* String.prototype.trimEnd / trimStart
TrimEnd(s) ==
  LET I == {i \in 1..Len(s) : s[i] \notin Whitespace} IN
  IF I = {} THEN <<>> ELSE SubSeq(s, 1, CHOOSE i \in I : \A j \in I : j <= i)

TrimStart(s) ==
  LET I == {i \in 1..Len(s) : s[i] \notin Whitespace} IN
  IF I = {} THEN <<>> ELSE SubSeq(s, CHOOSE i \in I : \A j \in I : i <= j, Len(s))

\* mutant: without a separator the cut is one character past maxLength
SplitIndex_PastMax(remaining, maxLength) ==
  LET atNewline == LastIndexOf(remaining, "\n", maxLength)
      atSpace == IF 2 * atNewline < maxLength
                   THEN LastIndexOf(remaining, " ", maxLength)
                   ELSE atNewline
  IN IF 2 * atSpace < maxLength THEN maxLength + 1 ELSE atSpace

\* where one iteration of the loop cuts `remaining` (longer than maxLength)
SplitIndex(remaining, maxLength) ==
  LET atNewline == LastIndexOf(remaining, "\n", maxLength)
      atSpace == IF 2 * atNewline < maxLength
                   THEN LastIndexOf(remaining, " ", maxLength)
                   ELSE atNewline
  IN IF 2 * atSpace < maxLength THEN maxLength ELSE atSpace

\* mutant: the rest starts after the character at the cut, as if the cut
\* were always at a separator
RECURSIVE SplitLoop_SkipSeparator(_, _, _)
SplitLoop_SkipSeparator(remaining, maxLength, chunks) ==
  IF Len(remaining) = 0 THEN chunks
  ELSE IF Len(remaining) <= maxLength THEN Append(chunks, remaining)
  ELSE LET splitIndex == SplitIndex(remaining, maxLength) IN
       SplitLoop_SkipSeparator(
         TrimStart(SubSeq(remaining, splitIndex + 2, Len(remaining))), maxLength,
         Append(chunks, TrimEnd(SubSeq(remaining, 1, splitIndex))))

\* the while (remaining.length > 0) loop; remaining.slice(0, splitIndex) is
\* SubSeq(remaining, 1, splitIndex) and remaining.slice(splitIndex) the rest
RECURSIVE SplitLoop(_, _, _)
SplitLoop(remaining, maxLength, chunks) ==
  IF Len(remaining) = 0 THEN chunks
  ELSE IF Len(remaining) <= maxLength THEN Append(chunks, remaining)
  ELSE LET splitIndex == SplitIndex(remaining, maxLength) IN
       SplitLoop(TrimStart(SubSeq(remaining, splitIndex + 1, Len(remaining))),
                 maxLength,
                 Append(chunks, TrimEnd(SubSeq(remaining, 1, splitIndex))))

splitTextForSlack(text, maxLength) ==
  IF Len(text) <= maxLength THEN <<text>> ELSE SplitLoop(text, maxLength, <<>>)

\* a caller is about to call splitTextForSlack(text, maxLength)
InitSplit ==
  /\ InitManager
  /\ InitApp
  /\ IdleHandler
  /\ \E text \in Texts, maxLength \in 1..MaxSplitLength :
       split = [pc |-> "called", text |-> text, maxLength |-> maxLength,
                chunks |-> <<>>]

\* the call returns its chunks
SplitReturns ==
  /\ split.pc = "called"
  /\ split' = [split EXCEPT !.pc = "returned",
                            !.chunks = splitTextForSlack(split.text, split.maxLength)]
  /\ UNCHANGED <<queueVars, appVars, handlerVars>>

SpecSplit == InitSplit /\ [][SplitReturns]_vars


\* the chunks concatenated in order
RECURSIVE C30_Concat(_)
C30_Concat(chunks) ==
  IF chunks = <<>> THEN <<>> ELSE Head(chunks) \o C30_Concat(Tail(chunks))

\* the characters of s that are no whitespace, in order
C30_NonWhitespace(s) == SelectSeq(s, LAMBDA c : c \notin Whitespace)

C30_AllWhitespace(s) == \A i \in 1..Len(s) : s[i] \in Whitespace

\* text is the chunks in order, each followed by a (possibly empty) run of
\* whitespace: the whitespace removed at the chunk's boundary
RECURSIVE C30_ChunksWithGaps(_, _)
C30_ChunksWithGaps(text, chunks) ==
  IF chunks = <<>> THEN text = <<>>
  ELSE LET c == Head(chunks) IN
       /\ Len(c) <= Len(text)
       /\ SubSeq(text, 1, Len(c)) = c
       /\ \E g \in 0..(Len(text) - Len(c)) :
            /\ C30_AllWhitespace(SubSeq(text, Len(c) + 1, Len(c) + g))
            /\ C30_ChunksWithGaps(SubSeq(text, Len(c) + g + 1, Len(text)), Tail(chunks))

\* C30: for every text and every positive max, the chunks returned by
\* splitTextForSlack, concatenated in order, are the text with only whitespace
\* removed at chunk boundaries: the characters that are no whitespace are the
\* same, as often and in the same order
C30_SplitKeepsText ==
  split.pc = "returned" =>
    /\ C30_ChunksWithGaps(split.text, split.chunks)
    /\ C30_NonWhitespace(C30_Concat(split.chunks)) = C30_NonWhitespace(split.text)

\* a text longer than max with the letters a, b, a, b was cut into three
\* chunks and whitespace was removed at a boundary
C30_Witness ==
  /\ split.pc = "returned"
  /\ Len(split.text) > split.maxLength
  /\ Len(split.chunks) = 3
  /\ Len(C30_Concat(split.chunks)) < Len(split.text)
  /\ C30_NonWhitespace(split.text) = <<"a", "b", "a", "b">>

\* the empty text comes back as one empty chunk
C30_WitnessEmpty ==
  /\ split.pc = "returned"
  /\ split.text = <<>>
  /\ split.chunks = <<<<>>>>

\* a text of exactly max characters comes back as one chunk
C30_WitnessExact ==
  /\ split.pc = "returned"
  /\ Len(split.text) = split.maxLength
  /\ split.chunks = <<split.text>>


\* C31: every chunk returned by splitTextForSlack(text, max) has at most max
\* characters, for every text and every positive max
C31_ChunksFit ==
  split.pc = "returned" =>
    \A i \in 1..Len(split.chunks) : Len(split.chunks[i]) <= split.maxLength

\* a text without separators, longer than max, was cut into chunks and one
\* of them has exactly max characters
C31_Witness ==
  /\ split.pc = "returned"
  /\ Len(split.text) > split.maxLength
  /\ \A i \in 1..Len(split.text) : split.text[i] \notin Whitespace
  /\ Len(split.chunks) >= 2
  /\ \E i \in 1..Len(split.chunks) : Len(split.chunks[i]) = split.maxLength


\* ------------------------------------------------------------------------
\* SpecSplitLoop: splitTextForSlack run one loop iteration at a time, for
\* every maxLength from -MaxBelowZero to MaxSplitLength.
\* ------------------------------------------------------------------------
\* how far below zero the maxLength passed to splitTextForSlack goes
MaxBelowZero == 1
\* most elements the chunks array can hold before a push fails
MaxSplitChunks == 6

\* String.prototype.slice(begin, end): a negative index counts from the end,
\* every index is clamped to 0..length
Slice(s, begin, end) ==
  LET n == Len(s)
      at(i) == IF i < 0 THEN (IF n + i < 0 THEN 0 ELSE n + i)
               ELSE (IF i > n THEN n ELSE i)
  IN SubSeq(s, at(begin) + 1, at(end))

InitSplitLoop ==
  /\ InitManager
  /\ InitApp
  /\ IdleHandler
  /\ \E text \in Texts, maxLength \in (0 - MaxBelowZero)..MaxSplitLength :
       split = [pc |-> "called", text |-> text, maxLength |-> maxLength,
                chunks |-> <<>>, remaining |-> <<>>]

\* lines 65-70: a text that fits is returned as it is, any other enters the
\* loop
SplitEnter ==
  /\ split.pc = "called"
  /\ split' = IF Len(split.text) <= split.maxLength
                THEN [split EXCEPT !.pc = "returned", !.chunks = <<split.text>>]
                ELSE [split EXCEPT !.pc = "loop", !.remaining = split.text]
  /\ UNCHANGED <<queueVars, appVars, handlerVars>>

\* lines 72-93: one iteration of while (remaining.length > 0). A push on a
\* full array does not return: the call ends without a result
SplitIterate ==
  /\ split.pc = "loop"
  /\ Len(split.remaining) > 0
  /\ split' =
       IF Len(split.chunks) >= MaxSplitChunks
         THEN [split EXCEPT !.pc = "exhausted"]
       ELSE IF Len(split.remaining) <= split.maxLength
         THEN [split EXCEPT !.pc = "returned",
                            !.chunks = Append(@, split.remaining)]
       ELSE LET splitIndex == SplitIndex(split.remaining, split.maxLength) IN
            [split EXCEPT
               !.chunks = Append(@, TrimEnd(Slice(split.remaining, 0, splitIndex))),
               !.remaining = TrimStart(Slice(split.remaining, splitIndex,
                                             Len(split.remaining)))]
  /\ UNCHANGED <<queueVars, appVars, handlerVars>>

\* lines 72, 95: the loop condition fails and the chunks are returned
SplitExit ==
  /\ split.pc = "loop"
  /\ Len(split.remaining) = 0
  /\ split' = [split EXCEPT !.pc = "returned"]
  /\ UNCHANGED <<queueVars, appVars, handlerVars>>

NextSplitLoop == SplitEnter \/ SplitIterate \/ SplitExit

\* a call that has started keeps running
SpecSplitLoop ==
  InitSplitLoop /\ [][NextSplitLoop]_vars /\ WF_vars(NextSplitLoop)

C33_TickFailed ==
  \E n \in 1..Len(chat.calls) :
    chat.calls[n].by = "tick" /\ chat.calls[n].status = "fail"

\* the step issues exactly one chat call, made by `by`
C33_Attempts(by) ==
  /\ Len(NewCalls) = 1
  /\ NewCalls[1].by = by
  /\ NewCalls[1].status = "flight"

\* C33: when a refresh tick's chat update has failed, the handler has stopped
\* its timer and no further tick fires for it, while a later updateProgress
\* (on a handler with a handle that is not completed) and a later terminal
\* render (showResult, showError) still call the chat client
C33_Step ==
  C33_TickFailed =>
    /\ ~rh.timerOn
    /\ ~IsTickStep
    /\ \A t \in ProgressTexts, e \in ProgressSeconds :
         (HProgress(t, e, 1) /\ run.current /\ ~rh.isCompleted)
           => C33_Attempts("progress")
    /\ \A c \in 1..(MaxChunks + 1) :
         (HStreamEnd(c, 3, 1) /\ ~run.aborted) => C33_Attempts("result")
    /\ (HStreamThrow /\ ~run.aborted) => C33_Attempts("error")

C33_TickFailureStopsTimer == [][C33_Step]_vars

\* the first tick's update failed while the bound still allowed a second
\* tick, and updateProgress has then sent its update
C33_Witness ==
  /\ C33_TickFailed
  /\ run.nTicks < MaxTicks
  /\ run.pc = "streaming"
  /\ run.last = "updateProgress"
  /\ chat.calls[Len(chat.calls)].by = "progress"

\* after the failed tick the stream has ended and showResult has sent the
\* result
C33_WitnessTerminal ==
  /\ C33_TickFailed
  /\ run.nTicks < MaxTicks
  /\ run.last = "showResult"
  /\ chat.calls[Len(chat.calls)].by = "result"


\* how often the callback was invoked: onResult begins with showResult's
\* first update (by "result"), onError with showError's (by "error")
C34_Invoked(by) == Cardinality(CallsBy(chat, {by}))

C34_Inv ==
  ~run.aborted =>
    /\ C34_Invoked("result") + C34_Invoked("error") <= 1
    /\ run.pc = "done" => C34_Invoked("result") + C34_Invoked("error") = 1

C34_Step ==
  ~run.aborted =>
    /\ \A c \in 1..(MaxChunks + 1) :
         HStreamEnd(c, 3, 1) =>
           C34_Invoked("result")' = 1 /\ C34_Invoked("error")' = 0
    /\ HStreamThrow =>
         C34_Invoked("error")' = 1 /\ C34_Invoked("result")' = 0
    /\ (~run'.aborted /\ C34_Invoked("result")' # C34_Invoked("result"))
         => run.pc = "streaming" /\ run'.last = "showResult"
    /\ (~run'.aborted /\ C34_Invoked("error")' # C34_Invoked("error"))
         => run.pc = "streaming" /\ run'.last = "showError"

\* C34: for each handleClaudeQuery invocation that is not aborted, exactly
\* one of onResult and onError is invoked, exactly once: onResult when the
\* stream ends normally, onError when the stream throws; never both and, once
\* the invocation has returned, never neither
C34_ExactlyOneTerminalCallback == []C34_Inv /\ [][C34_Step]_vars

\* the stream ended normally, showResult's first update failed and its error
\* helper ran: the invocation has returned with onResult invoked once and
\* onError never
C34_Witness ==
  /\ ~run.aborted
  /\ run.pc = "done"
  /\ C34_Invoked("result") = 1
  /\ C34_Invoked("error") = 0
  /\ \E n \in 1..Len(chat.calls) :
       chat.calls[n].by = "result" /\ chat.calls[n].status = "fail"

\* the stream threw and the invocation has returned with onError invoked
\* once and onResult never
C34_WitnessError ==
  /\ ~run.aborted
  /\ run.pc = "done"
  /\ C34_Invoked("error") = 1
  /\ C34_Invoked("result") = 0


\* job j has been admitted and none of its own release paths has run yet
C35_HoldsSlot(j) == pc[j] = "starting" \/ InQuery(pc[j])

\* C35: finishProcessing is called at most once per successful admission, so
\* no second release clears the slot of a successor admitted in between: with
\* no button pressed, a job that was admitted and has not reached its own
\* release is the thread's current job
C35_ReleasedOncePerAdmission ==
  \A j \in Jobs : C35_HoldsSlot(j) => getCurrentMessageId(threads, K) = j


\* C36: no queued job is lost: a job that finishProcessing or prioritize has
\* taken out of the queue is handed to startProcessing and admitted; no call
\* site drops it ("lost") and no admission refuses it ("refused")
C36_NoQueuedJobLost == \A j \in Jobs : pc[j] \notin {"lost", "refused"}


\* C37: whenever the thread's queue holds an entry that is not cancelled the
\* thread is busy: the mention handler never enqueues a job on a thread that
\* became idle between its isProcessing check and its enqueue call (stated
\* for the runs in which no chat call has failed)
C37_QueuedImpliesBusy ==
  ~chatFailed =>
    (QueuedCount(QueueOf(threads, K)) > 0 => isProcessing(threads, K))


\* the step completes showAborted: its update has returned, or the handler
\* had no handle and showAborted returned at once
C38_ByUserAction ==
  \/ run'.last = "showAborted"
  \/ \E n \in 1..Len(chat.calls) :
       /\ chat.calls[n].by = "aborted"
       /\ chat.calls[n].status = "flight"
       /\ chat'.calls[n].status # "flight"

\* C38: once the abort signal held by a handleClaudeQuery invocation is set,
\* the invocation invokes neither onResult nor onError, so the thread's slot
\* is released only by the user-action handler (stop_claude or process_now)
\* that aborted it
C38_Step ==
  (run.aborted /\ InQuery(run.pc)) =>
    /\ C34_Invoked("result")' = C34_Invoked("result")
    /\ C34_Invoked("error")' = C34_Invoked("error")
    /\ (run.current /\ ~run'.current) => C38_ByUserAction

C38_AbortedReleasedByUserAction == [][C38_Step]_vars


\* C39: in every reachable state of the queue manager, a thread's
\* isProcessing flag is true if and only if its current handler and its
\* current job id are both non-null
C39_BusyIffHandlerAndId ==
  \A k \in DOMAIN threads :
    threads[k].isProcessing <=>
      (threads[k].currentHandler # NullHandler /\ threads[k].currentMessageId # NullId)

\* thread t1 was busy and has just been released with an entry still queued,
\* while thread t2 is busy with its handler and job id recorded
C39_Witness ==
  /\ last.op = "finishProcessing"
  /\ last.key = "t1"
  /\ DOMAIN threads = Keys
  /\ ~threads["t1"].isProcessing
  /\ threads["t1"].currentHandler = NullHandler
  /\ threads["t1"].currentMessageId = NullId
  /\ last.retMsg # <<>>
  /\ threads["t2"].isProcessing
  /\ threads["t2"].currentHandler # NullHandler
  /\ threads["t2"].currentMessageId # NullId


\* ------------------------------------------------------------------------
\* SpecProgress: the body text that buildProgressMessage puts into its
\* section block (slack-message.ts:183-212), character by character.  The
\* call is held in `split`, like the call of splitTextForSlack.
\* ------------------------------------------------------------------------
MAX_TEXT_LENGTH == 2500
\* longest of the short input strings
MaxShort == 2
\* how far below and above MAX_TEXT_LENGTH the long input strings go
MaxMargin == 22

getUserMention(userId) ==
  IF userId = <<"u", "n", "k", "n", "o", "w", "n">>
    THEN <<>>
    ELSE <<"<", "@">> \o userId \o <<">">>

truncateForSlack(text, maxLength) ==
  IF Len(text) <= maxLength
    THEN text
    ELSE Slice(text, 0, maxLength) \o <<".", ".", ".">>

\* messageText of buildProgressMessage; the status literal (an hourglass, a
\* space, two syllables, a space, one syllable, three dots: 9 UTF-16 units)
\* is written with one letter per unit; an undefined toolInfo is the empty
\* string
buildProgressMessageText(userId, text, toolInfo) ==
  LET userMention == getUserMention(userId)
      working == <<"H", " ", "j", "a", " ", "j", ".", ".", ".">>
      toolInfoText == IF toolInfo # <<>> THEN toolInfo \o <<"\n", "\n">> ELSE <<>>
      userTag == IF userMention # <<>> THEN userMention \o <<" ">> \o working
                 ELSE working
      overhead == Len(userTag) + Len(toolInfoText) + 10
      maxTextLength == MAX_TEXT_LENGTH - overhead
      truncatedText == truncateForSlack(text, maxTextLength)
  IN userTag \o <<"\n", "\n">> \o toolInfoText \o <<">", " ">> \o truncatedText

\* updateProgress is about to call buildProgressMessage with a user id, a
\* progress text and a tool-info string, each short or about as long as the
\* limit
InitProgress ==
  /\ InitManager
  /\ InitApp
  /\ IdleHandler
  /\ \E userId \in {<<"u", "n", "k", "n", "o", "w", "n">>, <<"U", "1">>},
        n, m \in (0..MaxShort) \cup
                 ((MAX_TEXT_LENGTH - MaxMargin)..(MAX_TEXT_LENGTH + MaxMargin)) :
       split = [pc |-> "called", userId |-> userId,
                text |-> [i \in 1..n |-> "x"],
                toolInfo |-> [i \in 1..m |-> "t"],
                messageText |-> <<>>]

\* the call returns its payload
ProgressReturns ==
  /\ split.pc = "called"
  /\ split' = [split EXCEPT
                 !.pc = "returned",
                 !.messageText = buildProgressMessageText(split.userId, split.text,
                                                          split.toolInfo)]
  /\ UNCHANGED <<queueVars, appVars, handlerVars>>

SpecProgress == InitProgress /\ [][ProgressReturns]_vars

\* C40: the body text of the payload built by buildProgressMessage never
\* exceeds MAX_TEXT_LENGTH characters, for every progress text and every
\* tool-info string, those longer than the limit included
C40_ProgressTextFits ==
  split.pc = "returned" => Len(split.messageText) <= MAX_TEXT_LENGTH

====
